---------------------------- MODULE Spec2Model ----------------------------
(***************************************************************************)
(* A model of the memory-verification engine of ocp-diag-sat:              *)
(*   - the fine-grain page queue (src/src/finelock_queue.cc),              *)
(*   - the worker-status controller (src/src/worker.h, src/src/worker.cc), *)
(*   - the work loops and the orchestrator's run loop that use them        *)
(*     (src/src/worker.cc, src/src/sat.cc),                                *)
(*   - the coarse-grain page queue (src/src/queue.cc), the random seeds of *)
(*     the fine-grain queue, the cache-coherency workers and the slow      *)
(*     comparator with the checksum routines (src/src/worker.cc).          *)
(*                                                                         *)
(* Specifications:                                                         *)
(*   SpecWalk    one thread at a time on queues of every size up to        *)
(*               MaxQueueSize: the search walk of                          *)
(*               GetRandomWithPredicateTag.                                *)
(*   SpecQueue   NumThreads threads calling GetEmpty/GetValid/PutEmpty/    *)
(*               PutValid in any interleaving, statement by statement.     *)
(*   SpecCopy    copy workers (CopyThread::Work) on a queue populated as   *)
(*               Sat::InitializePages leaves it.                           *)
(*   SpecTag     SpecQueue's calls made with region tags on a queue whose  *)
(*               pages carry the tags of their regions.                    *)
(*   SpecCheck   the post-run check threads (CheckThread::Work under STOP) *)
(*               draining the queue the run has left.                      *)
(*   SpecPool    a paused worker (power_spike_status_) next to a check or  *)
(*               invert thread (continuous_status_) under Sat::Run.        *)
(*   SpecInject  Sat::Run's error injection next to a copy thread.         *)
(*   SpecRun     Sat::Run's stop conditions, the error counts and main's   *)
(*               exit status.                                              *)
(*   SpecGen     the constructor's search for the generator (a, c, m), for *)
(*               every queue size up to MaxGenSize.                        *)
(*   SpecStatus  workers polling WorkerStatus::ContinueRunning, the        *)
(*               control thread running Sat::Run's pause/resume/stop.      *)
(*   FairStatus  SpecStatus with weak fairness of every thread's step.     *)
(*   SpecRing    PageEntryQueue::Push and PopRandom on a ring built for    *)
(*               RingPages pages.                                          *)
(*   SpecRand    up to NumCallers threads inside GetRandom64.              *)
(*   SpecCc      the cache-coherency threads incrementing and adding up    *)
(*               their counters.                                           *)
(*   SpecRegion  CheckRegion and ProcessError on a block with faults, and  *)
(*               the error injection of CopyThread::Work.                  *)
(*   SpecAdler   the length test of AdlerAddrMemcpyC and AdlerAddrCrcC.    *)
(***************************************************************************)
EXTENDS Integers, Sequences, FiniteSets, TLC

\* ------------------------------------------------------------------ bounds
MaxQueueSize == 10    \* SpecWalk: queue sizes 1..MaxQueueSize
QueueSize == 3        \* SpecQueue: slots of the concurrent queue
NumThreads == 2       \* threads of SpecQueue, SpecCopy and SpecStatus
MaxTouch == 1         \* a GetValid is started only while every touch < MaxTouch
MaxLoops == 1         \* quota of work-loop iterations of a worker (SpecStatus)
MaxCalls == 3         \* SpecWalk: queue calls made in one run
NumPatterns == 1      \* patterns of the catalog
NumRegions == 2       \* memory regions (tag bits)
MaxGenSize == 30      \* SpecGen: queue sizes 1 .. MaxGenSize
CopyPages == 5        \* SpecCopy: pages of the queue
MaxCopyLoops == 2     \* SpecCopy: copies one thread makes
MaxRaceLoops == 3     \* SpecRace: copies the copy thread makes
MaxPauseCopies == 2   \* SpecPause: copies completed by all threads together
MaxCoarseLoops == 2   \* SpecCoarse: copies one thread makes
MaxFreqReads == 7     \* SpecFreq: passes over the cpus
FillPages == 3        \* SpecFill: pages of the queue
CheckPages == 4       \* SpecCheck: pages of the queue
MaxPoolLoops == 2     \* SpecPool: iterations of a check or invert thread
MaxInjections == 2    \* SpecInject: error injections of the run loop
RunSeconds == 2       \* runtime_seconds_, in polls of the run loop
MaxErrors == 2        \* SpecRun: errors one thread counts
MaxErrorLimit == 2    \* SpecRun: largest --max_errors
RingPages == 3        \* SpecRing: pages the coarse ring is built for
MaxPushes == 5        \* SpecRing: successful pushes
MaxRand == 5          \* SpecRing: largest value random() returns
NumCallers == 5       \* SpecRand: threads that may call GetRandom64
MaxRandCalls == 1     \* SpecRand: calls of GetRandom64 one thread makes
MaxCcThreads == 4     \* SpecCc: largest number of cpus
MaxCcLines == 2       \* SpecCc: largest --cc_line_count
CcIncCount == 2       \* SpecCc: --cc_inc_count
BlockWords == 4       \* SpecRegion: 64-bit words of a block (512 in worker.cc:855-856)
ErrorLimit == 2       \* SpecRegion: kErrorLimit, the error queue's length (128 in worker.cc:680)
NumCatalog == 2       \* SpecRegion: patterns of the catalog
MaxChecks == 2        \* SpecRegion: calls of CheckRegion

\* ------------------------------------------------------- program constants
kDontCareTag == -1
kInvalidTag == 61441
PageSize == 1048576
kRandSlots == 4
kTagWords == 8
kInjectedByte == 186
kAdlerLimit == 524288

NULL == 0
Threads == 1 .. NumThreads
\* The control thread (Sat), which owns every slot after construction.
Sat == 0

\* ------------------------------------------------------------ bit masks
RECURSIVE BitAnd(_, _)
BitAnd(x, y) ==
    IF x = 0 \/ y = 0 THEN 0
    ELSE (IF x % 2 = 1 /\ y % 2 = 1 THEN 1 ELSE 0) + 2 * BitAnd(x \div 2, y \div 2)

\* --------------------------------------------- the generator (constructor)
RECURSIVE DivideOut(_, _)
DivideOut(remaining, i) ==
    IF ((remaining \div i) * i) = remaining
    THEN DivideOut(remaining \div i, i)
    ELSE remaining

RECURSIVE getA_loop(_, _, _, _)
getA_loop(m, i, remaining, a) ==
    IF i > m THEN a
    ELSE IF ((remaining \div i) * i) = remaining
         THEN getA_loop(m, i + 1, DivideOut(remaining \div i, i), a * i)
         ELSE getA_loop(m, i + 1, remaining, a)

getA(m) ==
    (getA_loop(m, 2, m, IF ((m \div 4) * 4) = m THEN 2 ELSE 1) + 1) % m

RECURSIVE getC_failed(_, _)
getC_failed(possible_prime, i) ==
    IF i >= possible_prime THEN FALSE
    ELSE IF ((possible_prime \div i) * i) = possible_prime THEN TRUE
         ELSE getC_failed(possible_prime, i + 1)

RECURSIVE getC_loop(_)
getC_loop(possible_prime) ==
    IF possible_prime <= 1 THEN 1
    ELSE IF ~getC_failed(possible_prime, 2) THEN possible_prime
         ELSE getC_loop(possible_prime - 1)

\* Variant: the starting value returned without the search for a prime.
getC_NoSearch(m) == (3 * m) \div 4 + 1

getC(m) == getC_loop((3 * m) \div 4 + 1)

RECURSIVE SearchModlength(_)
SearchModlength(modlength) ==
    IF getA(modlength) % modlength = 1
    THEN SearchModlength(modlength + 1)
    ELSE modlength

\* FineLockPEQueue::FineLockPEQueue, the generator part: [a, c, modlength].
Generator(queuesize) ==
    IF queuesize < 3
    THEN [a |-> 1, c |-> 1, modlength |-> queuesize]
    ELSE LET modlength == SearchModlength(queuesize)
         IN  [a |-> getA(modlength) % modlength,
              c |-> getC(modlength),
              modlength |-> modlength]


\* ------------------------------------------------------------------ state
VARIABLES
    q_size_,            \* FineLockPEQueue::q_size_
    a_,                 \* FineLockPEQueue::a_
    c_,                 \* FineLockPEQueue::c_
    modlength_,         \* FineLockPEQueue::modlength_
    pages_,             \* FineLockPEQueue::pages_      [index -> page_entry]
    pagelocks_,         \* FineLockPEQueue::pagelocks_  [index -> holder or NoThread]
    pc,                 \* [thread -> the statement it is at]
    frame,              \* [thread -> the locals of the queue call it is in]
    pe,                 \* [thread -> [src, dst -> page_entry]]  the caller's locals
    held,               \* [thread -> handles taken and not yet put back]
    result,             \* [thread -> return value of its last queue call]
    probed,             \* [thread -> indices probed so far by its current search]
    calls,              \* number of queue calls started (bounded in SpecWalk)
    status_,            \* WorkerStatus::status_
    num_workers_,       \* WorkerStatus::num_workers_
    pause_barrier_,     \* WorkerStatus::pause_barrier_  [count, waiting, released]
    status_rwlock_,     \* WorkerStatus::status_rwlock_  the threads holding it for reading
    num_workers_mutex_, \* WorkerStatus::num_workers_mutex_  holder or NoThread
    loops,              \* [thread -> iterations its work loop has completed]
    paused,             \* [thread -> *paused of its last ContinueRunning call]
    sat_pc,             \* the statement the control thread is at
    next_pause,         \* Sat::Run next_pause  (0, or 1 for a time that is set)
    next_resume,        \* Sat::Run next_resume (0, or 1 for a time that is set)
    errorcount_,        \* WorkerThread::errorcount_ of the run's workers [thread -> count]
    check_errorcount_,  \* WorkerThread::errorcount_ of the post-run check threads
    sat_errorcount_,    \* Sat::errorcount_
    statuscount_,       \* Sat::statuscount_
    max_errorcount_,    \* Sat::max_errorcount_ (--max_errors)
    user_break_,        \* Sat::user_break_
    seconds_remaining,  \* Sat::Run: end - now
    retval,             \* main: retval (-1: not set)
    ring_,              \* PageEntryQueue::pages_   [index -> page_entry, NULL: never written]
    ring_size_,         \* PageEntryQueue::q_size_
    nextin_,            \* PageEntryQueue::nextin_
    nextout_,           \* PageEntryQueue::nextout_
    pushed_,            \* PageEntryQueue::pushed_
    popped_,            \* PageEntryQueue::popped_
    ring_ret,           \* the last call on the ring: [op, result, pe (*pe after the call)]
    randlocks_,         \* FineLockPEQueue::randlocks_  [slot -> holder or NoThread]
    rand_seed_,         \* FineLockPEQueue::rand_seed_  [slot -> numbers drawn from it]
    num_callers,        \* the threads that call GetRandom64
    caller,             \* [thread -> [pc, i, calls, result] of its GetRandom64 call]
    cc_thread_count_,   \* CpuCacheCoherencyThread::cc_thread_count_ (num_cpus)
    cc_cacheline_count_, \* CpuCacheCoherencyThread::cc_cacheline_count_
    cc_cacheline_data_, \* [cline -> [offset -> [num, by: the threads that wrote the cell]]]
    cc_worker,          \* [cc_thread_num_ -> [pc, i, errorcount_] of its Work()]
    memblock,           \* CheckRegion: memblock  [word -> [l, h]], one block of a page
    block_pattern,      \* srcpe->pattern of the page the block is in
    tag_mode_,          \* WorkerThread::tag_mode_
    injected,           \* the words CopyThread::Work's injection wrote since the last check
    diagnoses,          \* the diagnoses of the last CheckRegion, in order
    block_errors,       \* the "Block Error" log lines of the last CheckRegion
    check_log,          \* the values CheckRegion returned since the memory last changed
    worker_errorcount_, \* WorkerThread::errorcount_ of the checking thread
    adler_call,         \* the last checksum call: [fn, count, result, checksum]
    valid_,             \* Sat::valid_  the ring of valid pages [pages, q_size, nextin, nextout, pushed, popped]
    empty_,             \* Sat::empty_  the ring of empty pages, likewise
    cg_pc,              \* coarse-grain run: [thread -> the statement it is at]
    cg_pe,              \* coarse-grain run: [thread -> [src, dst -> the page the local describes]]
    cg_loops,           \* coarse-grain run: [thread -> iterations of its current loop]
    fq_pc,              \* CpuFreqThread::Work: position of the thread
    fq_curr,            \* CpuFreqThread::Work: curr, index of the buffer being read
    fq_prev,            \* CpuFreqThread::Work: prev, index of the other buffer
    num_intervals,      \* CpuFreqThread::Work: samples collected since the last reset
    fq_paused,          \* CpuFreqThread::Work: paused, set by IsReadyToRun
    fq_data,            \* data[b][cpu]: the number of events before the sample was read
    fq_events,          \* pauses and failed MSR reads so far
    cpu_freqs,          \* elements added to the measurement series
    fq_reads            \* passes over the cpus made

queueVars == <<q_size_, a_, c_, modlength_, pages_, pagelocks_>>
threadVars == <<pc, frame, pe, held, result, probed, calls>>
ringVars == <<ring_, ring_size_, nextin_, nextout_, pushed_, popped_, ring_ret>>
randVars == <<randlocks_, rand_seed_, num_callers, caller>>
ccVars == <<cc_thread_count_, cc_cacheline_count_, cc_cacheline_data_, cc_worker>>
regionVars == <<memblock, block_pattern, tag_mode_, injected, diagnoses,
                block_errors, check_log, worker_errorcount_, adler_call>>
coarseVars == <<valid_, empty_, cg_pc, cg_pe, cg_loops>>
freqVars == <<fq_pc, fq_curr, fq_prev, num_intervals, fq_paused, fq_data, fq_events,
              cpu_freqs, fq_reads>>
unitVars == <<ringVars, randVars, ccVars, regionVars, coarseVars, freqVars>>
runVars == <<errorcount_, check_errorcount_, sat_errorcount_, statuscount_,
             max_errorcount_, user_break_, seconds_remaining, retval, unitVars>>
statusVars == <<status_, num_workers_, pause_barrier_, status_rwlock_,
                num_workers_mutex_, loops, paused, sat_pc, next_pause, next_resume,
                runVars>>
vars == <<queueVars, threadVars, statusVars>>

NoThread == -1
Handles == {"src", "dst"}

\* struct page_entry (the fields the queue and the work loops act on).
page_entry(offset, pattern, tag, touch) ==
    [offset |-> offset, pattern |-> pattern, tag |-> tag, touch |-> touch]

\* init_pe
init_pe == page_entry(0, NULL, kInvalidTag, 0)

NoFrame ==
    [pred |-> "none", tag |-> kDontCareTag, first_try |-> 0, next_try |-> 0,
     i |-> 0, index |-> 0, h |-> "src", ret |-> "idle"]

page_is_valid(p) == p.pattern # NULL
page_is_empty(p) == p.pattern = NULL
pred_func(pred, p) == IF pred = "valid" THEN page_is_valid(p) ELSE page_is_empty(p)

valid_index(index) == index >= 0 /\ index < q_size_

\* The slot a descriptor belongs to (PutEmpty/PutValid: pe->offset / page_size_).
SlotOf(p) == p.offset \div PageSize


\* Variant: the generator without its increment.
LcgStep_NoIncrement(next_try) == (a_ * next_try) % modlength_

\* ------------------------------------------------------------ the search walk
LcgStep(next_try) == (a_ * next_try + c_) % modlength_


\* Variant: out of bounds values folded into range instead of discarded.
DiscardOutOfBounds_Fold(next_try) == next_try % q_size_

RECURSIVE DiscardOutOfBounds(_)
DiscardOutOfBounds(next_try) ==
    IF next_try >= q_size_ THEN DiscardOutOfBounds(LcgStep(next_try)) ELSE next_try

\* finelock_queue.cc:265  index = (next_try + first_try) % q_size_
ProbeIndex(next_try, first_try) == (next_try + first_try) % q_size_

\* finelock_queue.cc:269-274
AdvanceNextTry(next_try) == DiscardOutOfBounds(LcgStep(next_try))

\* ------------------------------------------------------- unlocked reads
\* The search reads pages_[index] without holding its lock.  While another
\* thread is storing a descriptor into that slot (PutEmpty/PutValid, line
\* 350/366) the read may see the old or the new value of the field.
DirtyRead(index) ==
    {pages_[index]} \cup
    {pe[u][frame[u].h] : u \in {v \in Threads : pc[v] = "put_store" /\ frame[v].index = index}}

\* ------------------------------------------------ GetRandomWithPredicateTag
\* Return from a Get: the handle is held iff the call succeeded.
GetReturn(t, ok, newpe) ==
    /\ pc' = [pc EXCEPT ![t] = frame[t].ret]
    /\ result' = [result EXCEPT ![t] = ok]
    /\ held' = [held EXCEPT ![t] = IF ok THEN @ \cup {frame[t].h} ELSE @]
    /\ pe' = IF ok THEN [pe EXCEPT ![t][frame[t].h] = newpe] ELSE pe
    /\ frame' = [frame EXCEPT ![t] = NoFrame]
    /\ probed' = [probed EXCEPT ![t] = <<>>]

\* Lines 257-261: entry.  first_try = GetRandom64() % q_size_.
GetEnter(t, h, pred, tag, first_try, ret) ==
    /\ first_try \in 0 .. (q_size_ - 1)
    /\ frame' = [frame EXCEPT ![t] =
                    [pred |-> pred, tag |-> tag, first_try |-> first_try,
                     next_try |-> 1, i |-> 0, index |-> 0, h |-> h, ret |-> ret]]
    /\ pc' = [pc EXCEPT ![t] = "get_loop"]
    /\ probed' = [probed EXCEPT ![t] = <<>>]

\* `continue`: the next iteration of the for loop.
GetContinue(t) ==
    /\ frame' = [frame EXCEPT ![t].i = @ + 1]
    /\ pc' = [pc EXCEPT ![t] = "get_loop"]

\* Lines 264-277: loop test, index, advance of next_try, unlocked predicate read.
GetProbe(t) ==
    /\ pc[t] = "get_loop"
    /\ IF frame[t].i >= q_size_
       THEN /\ GetReturn(t, FALSE, init_pe)
            /\ UNCHANGED <<queueVars, calls>>
       ELSE LET index == ProbeIndex(frame[t].next_try, frame[t].first_try)
                next == AdvanceNextTry(frame[t].next_try)
            IN  /\ \E seen \in DirtyRead(index) :
                      IF ~pred_func(frame[t].pred, seen)
                      THEN /\ frame' = [frame EXCEPT ![t].i = @ + 1,
                                                     ![t].index = index,
                                                     ![t].next_try = next]
                           /\ pc' = pc
                      ELSE /\ frame' = [frame EXCEPT ![t].index = index,
                                                     ![t].next_try = next]
                           /\ pc' = [pc EXCEPT ![t] =
                                       IF frame[t].tag # kDontCareTag
                                       THEN "get_tag" ELSE "get_trylock"]
                /\ probed' = [probed EXCEPT ![t] = Append(@, index)]
                /\ UNCHANGED <<queueVars, pe, held, result, calls>>
    /\ UNCHANGED statusVars


\* Variant: the tag of the slot is not looked at.
GetTagCheck_Skip(t) ==
    /\ pc[t] = "get_tag"
    /\ pc' = [pc EXCEPT ![t] = "get_trylock"]
    /\ frame' = frame
    /\ UNCHANGED <<queueVars, pe, held, result, probed, calls>>
    /\ UNCHANGED statusVars

\* Line 280: unlocked tag read.
GetTagCheck(t) ==
    /\ pc[t] = "get_tag"
    /\ \E seen \in DirtyRead(frame[t].index) :
          IF BitAnd(seen.tag, frame[t].tag) = 0
          THEN GetContinue(t)
          ELSE /\ pc' = [pc EXCEPT ![t] = "get_trylock"]
               /\ frame' = frame
    /\ UNCHANGED <<queueVars, pe, held, result, probed, calls>>
    /\ UNCHANGED statusVars


\* Variant: the slot taken whether or not its lock is free.
GetTryLock_NoCheck(t) ==
    /\ pc[t] = "get_trylock"
    /\ pagelocks_' = [pagelocks_ EXCEPT ![frame[t].index] = t]
    /\ pc' = [pc EXCEPT ![t] = "get_locked"]
    /\ frame' = frame
    /\ UNCHANGED <<q_size_, a_, c_, modlength_, pages_, pe, held, result, probed, calls>>
    /\ UNCHANGED statusVars

\* Line 282: pthread_mutex_trylock.
GetTryLock(t) ==
    /\ pc[t] = "get_trylock"
    /\ IF pagelocks_[frame[t].index] = NoThread
       THEN /\ pagelocks_' = [pagelocks_ EXCEPT ![frame[t].index] = t]
            /\ pc' = [pc EXCEPT ![t] = "get_locked"]
            /\ frame' = frame
       ELSE /\ GetContinue(t)
            /\ pagelocks_' = pagelocks_
    /\ UNCHANGED <<q_size_, a_, c_, modlength_, pages_, pe, held, result, probed, calls>>
    /\ UNCHANGED statusVars



\* Variant: a valid page copied out without counting the read.
GetLocked_NoTouch(t) ==
    /\ pc[t] = "get_locked"
    /\ LET index == frame[t].index
           slot == pages_[index]
       IN  IF ~pred_func(frame[t].pred, slot)
           THEN /\ pagelocks_' = [pagelocks_ EXCEPT ![index] = NoThread]
                /\ GetContinue(t)
                /\ UNCHANGED <<pe, held, result, probed>>
           ELSE /\ GetReturn(t, TRUE, slot)
                /\ pagelocks_' = pagelocks_
    /\ UNCHANGED <<q_size_, a_, c_, modlength_, pages_, calls>>
    /\ UNCHANGED statusVars

\* Variant: the slot copied out without the re-check under the lock.
GetLocked_NoRecheck(t) ==
    /\ pc[t] = "get_locked"
    /\ GetReturn(t, TRUE,
           IF frame[t].pred = "valid"
           THEN [pages_[frame[t].index] EXCEPT !.touch = @ + 1]
           ELSE pages_[frame[t].index])
    /\ UNCHANGED <<queueVars, calls>>
    /\ UNCHANGED statusVars

\* Lines 285-300: re-check under the lock; release, or copy out and return.
GetLocked(t) ==
    /\ pc[t] = "get_locked"
    /\ LET index == frame[t].index
           slot == pages_[index]
       IN  IF ~pred_func(frame[t].pred, slot)
           THEN /\ pagelocks_' = [pagelocks_ EXCEPT ![index] = NoThread]
                /\ GetContinue(t)
                /\ UNCHANGED <<pe, held, result, probed>>
           ELSE /\ GetReturn(t, TRUE,
                       IF frame[t].pred = "valid"
                       THEN [slot EXCEPT !.touch = @ + 1]
                       ELSE slot)
                /\ pagelocks_' = pagelocks_
    /\ UNCHANGED <<q_size_, a_, c_, modlength_, pages_, calls>>
    /\ UNCHANGED statusVars

\* ------------------------------------------------------ PutEmpty / PutValid
\* Entry of PutEmpty (lines 345-348) and PutValid (lines 361-364).
PutEnter(t, h, kind, ret) ==
    /\ h \in held[t]
    /\ valid_index(SlotOf(pe[t][h]))
    /\ kind = "valid" => page_is_valid(pe[t][h])
    /\ frame' = [frame EXCEPT ![t] =
                    [NoFrame EXCEPT !.pred = kind, !.index = SlotOf(pe[t][h]),
                                    !.h = h, !.ret = ret]]
    /\ pc' = [pc EXCEPT ![t] = "put_store"]

\* Line 350 / 366: pages_[index] = *pe.
PutStore(t) ==
    /\ pc[t] = "put_store"
    /\ pages_' = [pages_ EXCEPT ![frame[t].index] = pe[t][frame[t].h]]
    /\ pc' = [pc EXCEPT ![t] = IF frame[t].pred = "empty" THEN "put_null" ELSE "put_unlock"]
    /\ UNCHANGED <<q_size_, a_, c_, modlength_, pagelocks_, frame, pe, held, result, probed, calls>>
    /\ UNCHANGED statusVars


\* Variant: the stored pattern is left as the caller gave it.
PutNull_Keep(t) ==
    /\ pc[t] = "put_null"
    /\ pc' = [pc EXCEPT ![t] = "put_unlock"]
    /\ UNCHANGED <<queueVars, frame, pe, held, result, probed, calls>>
    /\ UNCHANGED statusVars

\* Line 352: pages_[index].pattern = 0.
PutNull(t) ==
    /\ pc[t] = "put_null"
    /\ pages_' = [pages_ EXCEPT ![frame[t].index].pattern = NULL]
    /\ pc' = [pc EXCEPT ![t] = "put_unlock"]
    /\ UNCHANGED <<q_size_, a_, c_, modlength_, pagelocks_, frame, pe, held, result, probed, calls>>
    /\ UNCHANGED statusVars

\* Line 353 / 367: pthread_mutex_unlock, return.
PutUnlock(t) ==
    /\ pc[t] = "put_unlock"
    /\ pagelocks_' = [pagelocks_ EXCEPT ![frame[t].index] = NoThread]
    /\ pc' = [pc EXCEPT ![t] = frame[t].ret]
    /\ held' = [held EXCEPT ![t] = @ \ {frame[t].h}]
    /\ result' = [result EXCEPT ![t] = TRUE]
    \* the caller's descriptor is dead after the put (overwritten by the next Get)
    /\ pe' = [pe EXCEPT ![t][frame[t].h] = init_pe]
    /\ frame' = [frame EXCEPT ![t] = NoFrame]
    /\ UNCHANGED <<q_size_, a_, c_, modlength_, pages_, probed, calls>>
    /\ UNCHANGED statusVars

\* ------------------------------------------------------------ WorkerStatus
\* enum Status (worker.h:131)
RUN == "RUN"
PAUSE == "PAUSE"
STOP == "STOP"

\* pthread_barrier_init(&pause_barrier_, NULL, count)
BarrierInit(count) == [count |-> count, waiting |-> {}, released |-> {}]


\* Variant: the barrier sized for the workers alone, the control thread
\* left out of the count.
StatusInitialized_WorkersOnly(n) ==
    /\ status_ = RUN
    /\ num_workers_ = n
    /\ pause_barrier_ = BarrierInit(n)
    /\ status_rwlock_ = {}
    /\ num_workers_mutex_ = NoThread
    /\ loops = [t \in Threads |-> 0]
    /\ paused = [t \in Threads |-> FALSE]

\* WorkerStatus() and AddWorkers(1) for each of n workers, then Initialize():
\* status_ RUN, the barrier sized for the workers and the control thread.
StatusInitialized(n) ==
    /\ status_ = RUN
    /\ num_workers_ = n
    /\ pause_barrier_ = BarrierInit(n + 1)
    /\ status_rwlock_ = {}
    /\ num_workers_mutex_ = NoThread
    /\ loops = [t \in Threads |-> 0]
    /\ paused = [t \in Threads |-> FALSE]


\* Variant: a barrier that lets every arrival straight through.
BarrierArrive_NoWait(th) ==
    pause_barrier_' = [pause_barrier_ EXCEPT !.released = @ \cup {th}]

\* The queue built without the spare slot.
PageEntryQueue_NoSpare(queuesize) ==
    /\ ring_size_ = queuesize
    /\ ring_ = [i \in 0 .. queuesize - 1 |-> NULL]
    /\ nextin_ = 0
    /\ nextout_ = 0
    /\ popped_ = 0
    /\ pushed_ = 0
    /\ ring_ret = [op |-> "new", result |-> 0, pe |-> NULL]

\* queue.cc:25-35: PageEntryQueue(queuesize).  There must always be one
\* empty slot, so the array has queuesize + 1 entries.
PageEntryQueue(queuesize) ==
    /\ ring_size_ = queuesize + 1
    /\ ring_ = [i \in 0 .. queuesize |-> NULL]
    /\ nextin_ = 0
    /\ nextout_ = 0
    /\ popped_ = 0
    /\ pushed_ = 0
    /\ ring_ret = [op |-> "new", result |-> 0, pe |-> NULL]

\* finelock_queue.cc:59-66: the four seeds and their mutexes.  A seed is
\* kept as the number of values drawn from it: seed i after k draws is the
\* k-th iterate of the generator of GetRandom64FromSlot on i + 0xbeef.
RandCallers == 1 .. NumCallers

RandSeeded(n) ==
    /\ randlocks_ = [i \in 0 .. (kRandSlots - 1) |-> NoThread]
    /\ rand_seed_ = [i \in 0 .. (kRandSlots - 1) |-> 0]
    /\ num_callers = n
    /\ caller = [t \in RandCallers |->
                   [pc |-> IF t <= n THEN "ready" ELSE "none",
                    i |-> 0, calls |-> 0, result |-> <<>>]]

\* sat.cc:1480-1537: the counters of every cache line are zeroed and one
\* thread is created for each of num_cpus cpus, numbered from 0.
CcAllocated(num_cpus, cacheline_count) ==
    /\ cc_thread_count_ = num_cpus
    /\ cc_cacheline_count_ = cacheline_count
    /\ cc_cacheline_data_ = [cline \in 0 .. (cacheline_count - 1) |->
                               [o \in 0 .. (num_cpus - 1) |-> [num |-> 0, by |-> {}]]]
    /\ cc_worker = [t \in 0 .. (num_cpus - 1) |->
                      [pc |-> "cc_inc", i |-> 0, errorcount_ |-> 0]]

\* ----------------------------------------------------- patterns and blocks
Words == 0 .. (BlockWords - 1)

Catalog == 1 .. NumCatalog

\* Pattern::pattern(index): the 32-bit value of a pattern at an index, which
\* depends on the pattern and the index alone.  Pattern p alternates
\* between the values 2p and 2p + 1.
PatternAt(p, index) == 2 * p + (index % 2)

\* worker.cc:694-698: data.l32.l = pattern->pattern(index), data.l32.h =
\* pattern->pattern(index + 1) with index = 2 * i + pattern_offset.
PatternWord(p, i, pattern_offset) ==
    [l |-> PatternAt(p, 2 * i + pattern_offset),
     h |-> PatternAt(p, 2 * i + pattern_offset + 1)]

\* addr_to_tag(&memblock[i]): the address of the word as its value.  The
\* block starts at address 1000 and a word has 8 bytes.
addr_to_tag(i) == [l |-> 1000 + 8 * i, h |-> 0]

\* worker.cc:692-703: the value that should be at word i (pattern_offset 0,
\* as CrcCheckPage passes it).  A word at a 64-byte boundary holds its tag
\* in tag mode.
Expected(i) ==
    IF tag_mode_ /\ i % kTagWords = 0
    THEN addr_to_tag(i)
    ELSE PatternWord(block_pattern, i, 0)

\* What word i of a block of a page filled with pattern p may hold in a
\* memory with faults: the right value, the data of another pattern, or the
\* right value with one byte of its low half overwritten.
WordFaults(p, tag_mode, i) ==
    {PatternWord(q, i, 0) : q \in Catalog}
        \cup {[PatternWord(p, i, 0) EXCEPT !.l = kInjectedByte]}
        \cup (IF tag_mode /\ i % kTagWords = 0 THEN {addr_to_tag(i)} ELSE {})

BlockAt(p, tag_mode) ==
    /\ block_pattern = p
    /\ tag_mode_ = tag_mode
    /\ memblock \in {f \in [Words -> UNION {WordFaults(p, tag_mode, i) : i \in Words}] :
                        \A i \in Words : f[i] \in WordFaults(p, tag_mode, i)}
    /\ injected = {}
    /\ diagnoses = <<>>
    /\ block_errors = <<>>
    /\ check_log = <<>>
    /\ worker_errorcount_ = 0
    /\ adler_call = [fn |-> "none", count |-> 0, result |-> TRUE, checksum |-> "untouched"]

\* No block under check: the block of a page as FillThread wrote it.
BlockIdle ==
    /\ block_pattern = 1
    /\ tag_mode_ = FALSE
    /\ memblock = [i \in Words |-> PatternWord(1, i, 0)]
    /\ injected = {}
    /\ diagnoses = <<>>
    /\ block_errors = <<>>
    /\ check_log = <<>>
    /\ worker_errorcount_ = 0
    /\ adler_call = [fn |-> "none", count |-> 0, result |-> TRUE, checksum |-> "untouched"]

\* queue.cc:28-36: PageEntryQueue(queuesize) as a value; a page entry is
\* named by the number of its page, NULL for a slot never written.
Queue_New(queuesize) ==
    [pages |-> [i \in 0 .. queuesize |-> NULL], q_size |-> queuesize + 1,
     nextin |-> 0, nextout |-> 0, pushed |-> 0, popped |-> 0]

\* No coarse-grain queue: --coarse_grain_lock is not given.
CoarseIdle ==
    /\ valid_ = Queue_New(0)
    /\ empty_ = Queue_New(0)
    /\ cg_pc = [t \in Threads |-> "idle"]
    /\ cg_pe = [t \in Threads |-> [h \in Handles |-> NULL]]
    /\ cg_loops = [t \in Threads |-> 0]

\* worker.cc:3248-3257: the locals of CpuFreqThread::Work before its loop;
\* data[0] and data[1] hold no sample.
NumCpus == 2
Cpus == 0 .. NumCpus - 1
NoSample == -1
TornSample == -2
FreqIdle ==
    /\ fq_pc = "ready"
    /\ fq_curr = 0
    /\ fq_prev = 1
    /\ num_intervals = 0
    /\ fq_paused = FALSE
    /\ fq_data = [b \in 0 .. 1 |-> [cpu \in Cpus |-> NoSample]]
    /\ fq_events = 0
    /\ cpu_freqs = {}
    /\ fq_reads = 0

\* The objects a specification does not exercise, as constructed.
UnitsIdle ==
    /\ PageEntryQueue(RingPages)
    /\ RandSeeded(0)
    /\ CcAllocated(0, 0)
    /\ BlockIdle
    /\ CoarseIdle
    /\ FreqIdle

\* The counters of the Sat object and of the threads, and the locals of
\* Sat::Run and main, as the constructors and Sat::Run's prologue leave them
\* (sat.cc:733, 773-774, 1964-1966; worker.cc:241), for an error limit and a
\* runtime taken from the command line.
SatCounters(max_errors, runtime) ==
    /\ errorcount_ = [t \in Threads |-> 0]
    /\ check_errorcount_ = [t \in Threads |-> 0]
    /\ sat_errorcount_ = 0
    /\ statuscount_ = 0
    /\ max_errorcount_ = max_errors
    /\ user_break_ = FALSE
    /\ seconds_remaining = runtime
    /\ retval = -1

\* The control thread at a position of its code.  Sat::Run starts its loop
\* with next_pause set and next_resume clear (sat.cc:1969-1970); no error
\* limit is set (max_errorcount_ = 0, the default).
SatAt(label) ==
    /\ sat_pc = label
    /\ next_pause = 1
    /\ next_resume = 0
    /\ SatCounters(0, RunSeconds)
    /\ UnitsIdle

\* WaitOnPauseBarrier, arrival at pthread_barrier_wait: the count-th thread
\* to arrive releases every waiting thread and itself.
BarrierArrive(th) ==
    IF Cardinality(pause_barrier_.waiting) + 1 = pause_barrier_.count
    THEN pause_barrier_' = [pause_barrier_ EXCEPT
                               !.released = @ \cup pause_barrier_.waiting \cup {th},
                               !.waiting = {}]
    ELSE pause_barrier_' = [pause_barrier_ EXCEPT !.waiting = @ \cup {th}]

\* WaitOnPauseBarrier, return from pthread_barrier_wait.
BarrierReturn(th) ==
    /\ th \in pause_barrier_.released
    /\ pause_barrier_' = [pause_barrier_ EXCEPT !.released = @ \ {th}]

\* SetStatus (worker.h:170-176): under the write lock, which waits for readers.
SetStatus(status) ==
    /\ status_rwlock_ = {}
    /\ status_' = status

\* --- worker side
\* ContinueRunning, entry (worker.cc:179-181): *paused = false.
CR_Enter(t) ==
    /\ pc[t] = "w_check"
    /\ paused' = [paused EXCEPT ![t] = FALSE]
    /\ pc' = [pc EXCEPT ![t] = "cr_poll"]
    /\ UNCHANGED <<queueVars, frame, pe, held, result, probed, calls>>
    /\ UNCHANGED <<status_, num_workers_, pause_barrier_, status_rwlock_,
                   num_workers_mutex_, loops, sat_pc, next_pause, next_resume>>
    /\ UNCHANGED runVars

\* ContinueRunning, switch (GetStatus()) (worker.cc:183-199).
CR_Poll(t) ==
    /\ pc[t] = "cr_poll"
    /\ CASE status_ = RUN ->
              /\ result' = [result EXCEPT ![t] = TRUE]
              /\ pc' = [pc EXCEPT ![t] = "w_test"]
         [] status_ = STOP ->
              /\ result' = [result EXCEPT ![t] = FALSE]
              /\ pc' = [pc EXCEPT ![t] = "w_test"]
         [] status_ = PAUSE ->
              /\ result' = result
              /\ pc' = [pc EXCEPT ![t] = "cr_b1"]
    /\ UNCHANGED <<queueVars, frame, pe, held, probed, calls, statusVars>>

\* ContinueRunning / RemoveSelf: arrival at the first or the second barrier.
Worker_BarrierArrive(t) ==
    /\ pc[t] \in {"cr_b1", "cr_b2", "rs_b1", "rs_b2"}
    /\ BarrierArrive(t)
    /\ pc' = [pc EXCEPT ![t] = CASE pc[t] = "cr_b1" -> "cr_b1_in"
                                 [] pc[t] = "cr_b2" -> "cr_b2_in"
                                 [] pc[t] = "rs_b1" -> "rs_b1_in"
                                 [] pc[t] = "rs_b2" -> "rs_b2_in"]
    /\ UNCHANGED <<queueVars, frame, pe, held, result, probed, calls>>
    /\ UNCHANGED <<status_, num_workers_, status_rwlock_, num_workers_mutex_,
                   loops, paused, sat_pc, next_pause, next_resume>>
    /\ UNCHANGED runVars

\* Variant: *paused is left alone after the second barrier.
Worker_BarrierReturn_NoFlag(t) ==
    /\ pc[t] \in {"cr_b1_in", "cr_b2_in", "rs_b1_in", "rs_b2_in"}
    /\ BarrierReturn(t)
    /\ pc' = [pc EXCEPT ![t] = CASE pc[t] = "cr_b1_in" -> "cr_b2"
                                 [] pc[t] = "cr_b2_in" -> "cr_poll"
                                 [] pc[t] = "rs_b1_in" -> "rs_b2"
                                 [] pc[t] = "rs_b2_in" -> "rs_lock"]
    /\ paused' = paused
    /\ UNCHANGED <<queueVars, frame, pe, held, result, probed, calls>>
    /\ UNCHANGED <<status_, num_workers_, status_rwlock_, num_workers_mutex_,
                   loops, sat_pc, next_pause, next_resume>>
    /\ UNCHANGED runVars

\* ContinueRunning with a single barrier: the worker released from the first
\* barrier goes back to its loop.
Worker_BarrierReturn_OneBarrier(t) ==
    /\ pc[t] \in {"cr_b1_in", "cr_b2_in", "rs_b1_in", "rs_b2_in"}
    /\ BarrierReturn(t)
    /\ pc' = [pc EXCEPT ![t] = CASE pc[t] = "cr_b1_in" -> "w_test"
                                 [] pc[t] = "cr_b2_in" -> "cr_poll"
                                 [] pc[t] = "rs_b1_in" -> "rs_b2"
                                 [] pc[t] = "rs_b2_in" -> "rs_lock"]
    /\ paused' = IF pc[t] = "cr_b2_in" THEN [paused EXCEPT ![t] = TRUE] ELSE paused
    /\ UNCHANGED <<queueVars, frame, pe, held, result, probed, calls>>
    /\ UNCHANGED <<status_, num_workers_, status_rwlock_, num_workers_mutex_,
                   loops, sat_pc, next_pause, next_resume>>
    /\ UNCHANGED runVars

\* ContinueRunning / RemoveSelf: released from a barrier.  After the second
\* barrier ContinueRunning sets *paused = true and polls again (lines 193-196);
\* RemoveSelf loops to its status check (line 207).
Worker_BarrierReturn(t) ==
    /\ pc[t] \in {"cr_b1_in", "cr_b2_in", "rs_b1_in", "rs_b2_in"}
    /\ BarrierReturn(t)
    /\ pc' = [pc EXCEPT ![t] = CASE pc[t] = "cr_b1_in" -> "cr_b2"
                                 [] pc[t] = "cr_b2_in" -> "cr_poll"
                                 [] pc[t] = "rs_b1_in" -> "rs_b2"
                                 [] pc[t] = "rs_b2_in" -> "rs_lock"]
    /\ paused' = IF pc[t] = "cr_b2_in" THEN [paused EXCEPT ![t] = TRUE] ELSE paused
    /\ UNCHANGED <<queueVars, frame, pe, held, result, probed, calls>>
    /\ UNCHANGED <<status_, num_workers_, status_rwlock_, num_workers_mutex_,
                   loops, sat_pc, next_pause, next_resume>>
    /\ UNCHANGED runVars

\* Variant: RemoveSelf keeps the read lock whatever the status is.
RS_Lock_AnyStatus(t) ==
    /\ pc[t] = "rs_lock"
    /\ status_rwlock_' = status_rwlock_ \cup {t}
    /\ pc' = [pc EXCEPT ![t] = "rs_mutex"]
    /\ UNCHANGED <<queueVars, frame, pe, held, result, probed, calls>>
    /\ UNCHANGED <<status_, num_workers_, pause_barrier_, num_workers_mutex_,
                   loops, paused, sat_pc, next_pause, next_resume>>
    /\ UNCHANGED runVars

\* RemoveSelf (worker.cc:207-218): take the read lock; keep it if the status
\* is not PAUSE, else release it and go through both barriers.
RS_Lock(t) ==
    /\ pc[t] = "rs_lock"
    /\ IF status_ # PAUSE
       THEN /\ status_rwlock_' = status_rwlock_ \cup {t}
            /\ pc' = [pc EXCEPT ![t] = "rs_mutex"]
       ELSE /\ status_rwlock_' = status_rwlock_
            /\ pc' = [pc EXCEPT ![t] = "rs_b1"]
    /\ UNCHANGED <<queueVars, frame, pe, held, result, probed, calls>>
    /\ UNCHANGED <<status_, num_workers_, pause_barrier_, num_workers_mutex_,
                   loops, paused, sat_pc, next_pause, next_resume>>
    /\ UNCHANGED runVars

\* RemoveSelf (worker.cc:223): AcquireNumWorkersLock.
RS_Mutex(t) ==
    /\ pc[t] = "rs_mutex"
    /\ num_workers_mutex_ = NoThread
    /\ num_workers_mutex_' = t
    /\ pc' = [pc EXCEPT ![t] = "rs_reinit"]
    /\ UNCHANGED <<queueVars, frame, pe, held, result, probed, calls>>
    /\ UNCHANGED <<status_, num_workers_, pause_barrier_, status_rwlock_,
                   loops, paused, sat_pc, next_pause, next_resume>>
    /\ UNCHANGED runVars

\* Variant: RemoveSelf leaves the barrier as it was and only decrements
\* num_workers_.
RS_Reinit_KeepBarrier(t) ==
    /\ pc[t] = "rs_reinit"
    /\ pause_barrier_' = pause_barrier_
    /\ num_workers_' = num_workers_ - 1
    /\ num_workers_mutex_' = NoThread
    /\ status_rwlock_' = status_rwlock_ \ {t}
    /\ pc' = [pc EXCEPT ![t] = "done"]
    /\ UNCHANGED <<queueVars, frame, pe, held, result, probed, calls>>
    /\ UNCHANGED <<status_, loops, paused, sat_pc, next_pause, next_resume>>
    /\ UNCHANGED runVars

\* Variant: RemoveSelf returns without releasing num_workers_mutex_.
RS_Reinit_KeepMutex(t) ==
    /\ pc[t] = "rs_reinit"
    /\ pause_barrier_' = [BarrierInit(num_workers_) EXCEPT
                              !.released = pause_barrier_.released]
    /\ num_workers_' = num_workers_ - 1
    /\ num_workers_mutex_' = num_workers_mutex_
    /\ status_rwlock_' = status_rwlock_ \ {t}
    /\ pc' = [pc EXCEPT ![t] = "done"]
    /\ UNCHANGED <<queueVars, frame, pe, held, result, probed, calls>>
    /\ UNCHANGED <<status_, loops, paused, sat_pc, next_pause, next_resume>>
    /\ UNCHANGED runVars

\* RemoveSelf (worker.cc:226-234): the barrier re-made for num_workers_
\* arrivals, --num_workers_, both locks released.  Threads already released
\* from the old barrier and not yet returned keep returning.
RS_Reinit(t) ==
    /\ pc[t] = "rs_reinit"
    /\ pause_barrier_' = [BarrierInit(num_workers_) EXCEPT
                              !.released = pause_barrier_.released]
    /\ num_workers_' = num_workers_ - 1
    /\ num_workers_mutex_' = NoThread
    /\ status_rwlock_' = status_rwlock_ \ {t}
    /\ pc' = [pc EXCEPT ![t] = "done"]
    /\ UNCHANGED <<queueVars, frame, pe, held, result, probed, calls>>
    /\ UNCHANGED <<status_, loops, paused, sat_pc, next_pause, next_resume>>
    /\ UNCHANGED runVars

\* --- a worker's loop (FillThread::Work, worker.cc:548-566: the loop runs
\* while IsReadyToRun() and the quota is not reached, and breaks on a failure;
\* WorkerThread::StartRoutine, worker.cc:361-363, then calls RemoveSelf).
Work_Test(t) ==
    /\ pc[t] = "w_test"
    /\ pc' = [pc EXCEPT ![t] = IF result[t] /\ loops[t] < MaxLoops
                               THEN "w_body" ELSE "rs_lock"]
    /\ UNCHANGED <<queueVars, frame, pe, held, result, probed, calls, statusVars>>

\* Variant: a work loop that never comes back to its ContinueRunning test.
Work_Body_NoPoll(t, ok) ==
    /\ pc[t] = "w_body"
    /\ pc' = [pc EXCEPT ![t] = "w_body"]
    /\ loops' = loops
    /\ UNCHANGED <<queueVars, frame, pe, held, result, probed, calls>>
    /\ UNCHANGED <<status_, num_workers_, pause_barrier_, status_rwlock_,
                   num_workers_mutex_, paused, sat_pc, next_pause, next_resume>>
    /\ UNCHANGED runVars

\* One unit of work: it fails (break) or the iteration counter advances.
Work_Body(t, ok) ==
    /\ pc[t] = "w_body"
    /\ IF ok
       THEN /\ loops' = [loops EXCEPT ![t] = @ + 1]
            /\ pc' = [pc EXCEPT ![t] = "w_check"]
       ELSE /\ loops' = loops
            /\ pc' = [pc EXCEPT ![t] = "rs_lock"]
    /\ UNCHANGED <<queueVars, frame, pe, held, result, probed, calls>>
    /\ UNCHANGED <<status_, num_workers_, pause_barrier_, status_rwlock_,
                   num_workers_mutex_, paused, sat_pc, next_pause, next_resume>>
    /\ UNCHANGED runVars

\* --- control thread (Sat::Run, sat.cc:1978-2060; times are abstracted: a
\* time that is set may be due at any iteration, and the loop may end at any
\* iteration: now >= end, user_break_, or the error limit).
\* PauseWorkers (worker.cc:163-165), called at sat.cc:2035.
Run_Pause ==
    /\ sat_pc = "run_loop"
    /\ next_pause # 0
    /\ SetStatus(PAUSE)
    /\ IF status_ # PAUSE
       THEN /\ sat_pc' = "pause_wait"
            /\ UNCHANGED <<next_pause, next_resume>>
       ELSE /\ sat_pc' = "run_loop"
            /\ next_pause' = 0
            /\ next_resume' = 1
    /\ UNCHANGED <<queueVars, threadVars>>
    /\ UNCHANGED <<num_workers_, pause_barrier_, status_rwlock_, num_workers_mutex_,
                   loops, paused>>
    /\ UNCHANGED runVars

\* ResumeWorkers (worker.cc:167-169), called at sat.cc:2049.
Run_Resume ==
    /\ sat_pc = "run_loop"
    /\ next_resume # 0
    /\ SetStatus(RUN)
    /\ IF status_ = PAUSE
       THEN /\ sat_pc' = "resume_wait"
            /\ UNCHANGED <<next_pause, next_resume>>
       ELSE /\ sat_pc' = "run_loop"
            /\ next_pause' = 1
            /\ next_resume' = 0
    /\ UNCHANGED <<queueVars, threadVars>>
    /\ UNCHANGED <<num_workers_, pause_barrier_, status_rwlock_, num_workers_mutex_,
                   loops, paused>>
    /\ UNCHANGED runVars


\* Variant: StopWorkers without the rendezvous that wakes paused workers.
Run_Stop_NoWake ==
    /\ sat_pc = "run_loop"
    /\ SetStatus(STOP)
    /\ sat_pc' = "join"
    /\ UNCHANGED <<queueVars, threadVars>>
    /\ UNCHANGED <<num_workers_, pause_barrier_, status_rwlock_, num_workers_mutex_,
                   loops, paused, next_pause, next_resume>>
    /\ UNCHANGED runVars

\* Variant: the status set to STOP without leaving the control loop.
Run_Stop_Continue ==
    /\ sat_pc = "run_loop"
    /\ SetStatus(STOP)
    /\ sat_pc' = IF status_ = PAUSE THEN "stop_wait" ELSE "run_loop"
    /\ UNCHANGED <<queueVars, threadVars>>
    /\ UNCHANGED <<num_workers_, pause_barrier_, status_rwlock_, num_workers_mutex_,
                   loops, paused, next_pause, next_resume>>
    /\ UNCHANGED runVars

\* The loop ends (sat.cc:1978, 1982-1990, 1993-2003); JoinThreads calls
\* StopWorkers (sat.cc:1622, worker.cc:171-173).
Run_Stop ==
    /\ sat_pc = "run_loop"
    /\ SetStatus(STOP)
    /\ sat_pc' = IF status_ = PAUSE THEN "stop_wait" ELSE "join"
    /\ UNCHANGED <<queueVars, threadVars>>
    /\ UNCHANGED <<num_workers_, pause_barrier_, status_rwlock_, num_workers_mutex_,
                   loops, paused, next_pause, next_resume>>
    /\ UNCHANGED runVars

\* The control thread's WaitOnPauseBarrier: arrival.
Sat_BarrierArrive ==
    /\ sat_pc \in {"pause_wait", "resume_wait", "stop_wait"}
    /\ BarrierArrive(Sat)
    /\ sat_pc' = CASE sat_pc = "pause_wait" -> "pause_in"
                   [] sat_pc = "resume_wait" -> "resume_in"
                   [] sat_pc = "stop_wait" -> "stop_in"
    /\ UNCHANGED <<queueVars, threadVars>>
    /\ UNCHANGED <<status_, num_workers_, status_rwlock_, num_workers_mutex_,
                   loops, paused, next_pause, next_resume>>
    /\ UNCHANGED runVars


\* Variant: next_resume is not set when PauseWorkers returns.
Sat_BarrierReturn_NoResumeTime ==
    /\ sat_pc \in {"pause_in", "resume_in", "stop_in"}
    /\ BarrierReturn(Sat)
    /\ sat_pc' = IF sat_pc = "stop_in" THEN "join" ELSE "run_loop"
    /\ next_pause' = CASE sat_pc = "pause_in" -> 0
                       [] sat_pc = "resume_in" -> 1
                       [] OTHER -> next_pause
    /\ next_resume' = 0
    /\ UNCHANGED <<queueVars, threadVars>>
    /\ UNCHANGED <<status_, num_workers_, status_rwlock_, num_workers_mutex_,
                   loops, paused>>
    /\ UNCHANGED runVars

\* The control thread is released: PauseWorkers returns (sat.cc:2038-2039:
\* next_pause = 0, next_resume set), ResumeWorkers returns (sat.cc:2052-2053:
\* next_pause set, next_resume = 0), or StopWorkers returns.
Sat_BarrierReturn ==
    /\ sat_pc \in {"pause_in", "resume_in", "stop_in"}
    /\ BarrierReturn(Sat)
    /\ sat_pc' = IF sat_pc = "stop_in" THEN "join" ELSE "run_loop"
    /\ next_pause' = CASE sat_pc = "pause_in" -> 0
                       [] sat_pc = "resume_in" -> 1
                       [] OTHER -> next_pause
    /\ next_resume' = CASE sat_pc = "pause_in" -> 1
                        [] sat_pc = "resume_in" -> 0
                        [] OTHER -> next_resume
    /\ UNCHANGED <<queueVars, threadVars>>
    /\ UNCHANGED <<status_, num_workers_, status_rwlock_, num_workers_mutex_,
                   loops, paused>>
    /\ UNCHANGED runVars

\* JoinThreads (sat.cc:1626-1635): every worker thread has ended.
Sat_Join ==
    /\ sat_pc = "join"
    /\ \A t \in Threads : pc[t] = "done"
    /\ sat_pc' = "joined"
    /\ UNCHANGED <<queueVars, threadVars>>
    /\ UNCHANGED <<status_, num_workers_, pause_barrier_, status_rwlock_,
                   num_workers_mutex_, loops, paused, next_pause, next_resume>>
    /\ UNCHANGED runVars

\* ---------------------------------------------------------- construction
Patterns == 1 .. NumPatterns
Regions == 0 .. (NumRegions - 1)
RECURSIVE Pow2(_)
Pow2(n) == IF n = 0 THEN 1 ELSE 2 * Pow2(n - 1)

\* FineLockPEQueue::FineLockPEQueue(queuesize, pagesize): every slot locked
\* (owned by Sat::InitializePages), the generator built.  pages_ is not
\* initialized by the constructor; no thread reads a slot before Sat's first
\* PutEmpty has stored into it, so the placeholder is never observed.
Allocated(queuesize) ==
    /\ q_size_ = queuesize
    /\ pages_ = [i \in 0 .. (queuesize - 1) |-> init_pe]
    /\ pagelocks_ = [i \in 0 .. (queuesize - 1) |-> Sat]

\* The constructor run to its end (finelock_queue.cc:41-100).
Constructed(queuesize) ==
    /\ Allocated(queuesize)
    /\ a_ = Generator(queuesize).a
    /\ c_ = Generator(queuesize).c
    /\ modlength_ = Generator(queuesize).modlength

ThreadsAt(label) ==
    /\ pc = [t \in Threads |-> label]
    /\ frame = [t \in Threads |-> NoFrame]
    /\ pe = [t \in Threads |-> [h \in Handles |-> init_pe]]
    /\ held = [t \in Threads |-> {}]
    /\ result = [t \in Threads |-> TRUE]
    /\ probed = [t \in Threads |-> <<>>]
    /\ calls = 0

\* Sat::InitializePages, "Initialize page locations" (sat.cc:456-461): the
\* control thread, alone, puts page i as an empty descriptor; PutEmpty stores
\* it, nulls the pattern and unlocks the slot.
PagesLocated == \A i \in 0 .. (q_size_ - 1) : pagelocks_[i] # Sat

InitializePages_PutEmpty ==
    /\ ~PagesLocated
    /\ LET i == CHOOSE k \in 0 .. (q_size_ - 1) :
                   /\ pagelocks_[k] = Sat
                   /\ \A j \in 0 .. (k - 1) : pagelocks_[j] # Sat
       IN  /\ pages_' = [pages_ EXCEPT ![i] = [init_pe EXCEPT !.offset = i * PageSize]]
           /\ pagelocks_' = [pagelocks_ EXCEPT ![i] = NoThread]
    /\ UNCHANGED <<q_size_, a_, c_, modlength_, threadVars>>
    /\ UNCHANGED statusVars

\* ------------------------------------------------- a caller of the queue
\* Every touch count, stored or in a caller's hands, is below the cap.
TouchRoom ==
    /\ \A i \in 0 .. (q_size_ - 1) : pages_[i].touch < MaxTouch
    /\ \A t \in Threads : \A h \in Handles : pe[t][h].touch < MaxTouch

\* FineLockPEQueue::GetEmpty(pe, tag) from a thread with a free local.
Client_GetEmpty(t, h, tag, first_try) ==
    /\ pc[t] = "idle"
    /\ PagesLocated
    /\ h \notin held[t]
    /\ GetEnter(t, h, "empty", tag, first_try, "idle")
    /\ UNCHANGED <<queueVars, pe, held, result>>
    /\ UNCHANGED statusVars

\* FineLockPEQueue::GetValid(pe, tag).
Client_GetValid(t, h, tag, first_try) ==
    /\ pc[t] = "idle"
    /\ PagesLocated
    /\ h \notin held[t]
    /\ TouchRoom
    /\ GetEnter(t, h, "valid", tag, first_try, "idle")
    /\ UNCHANGED <<queueVars, pe, held, result>>
    /\ UNCHANGED statusVars

\* FineLockPEQueue::PutEmpty(pe) of a descriptor the thread took.
Client_PutEmpty(t, h) ==
    /\ pc[t] = "idle"
    /\ PutEnter(t, h, "empty", "idle")
    /\ UNCHANGED <<queueVars, pe, held, result, probed>>
    /\ UNCHANGED statusVars

\* FineLockPEQueue::PutValid(pe): the caller has given the page a pattern
\* (FillThread::Work, worker.cc:556-560) unless it had one.
Client_PutValid(t, h, pattern) ==
    /\ pc[t] = "idle"
    /\ h \in held[t]
    /\ LET filled == IF pe[t][h].pattern = NULL
                     THEN [pe[t][h] EXCEPT !.pattern = pattern]
                     ELSE pe[t][h]
       IN  /\ valid_index(SlotOf(filled))
           /\ frame' = [frame EXCEPT ![t] =
                           [NoFrame EXCEPT !.pred = "valid", !.index = SlotOf(filled),
                                           !.h = h, !.ret = "idle"]]
           /\ pe' = [pe EXCEPT ![t][h] = filled]
    /\ pc' = [pc EXCEPT ![t] = "put_store"]
    /\ UNCHANGED <<queueVars, held, result, probed>>
    /\ UNCHANGED statusVars

\* Sat::InitializePages, sat.cc:538-544: a page taken with kInvalidTag gets
\* the tag of its region before it is put back.
Client_Retag(t, h, region) ==
    /\ pc[t] = "idle"
    /\ h \in held[t]
    /\ pe[t][h].tag = kInvalidTag
    /\ pe' = [pe EXCEPT ![t][h].tag = Pow2(region)]
    /\ UNCHANGED <<queueVars, pc, frame, held, result, probed, calls>>
    /\ UNCHANGED statusVars

\* ------------------------------------------------------------- SpecQueue
\* The worker threads' calls: any tag the workers pass before the pages are
\* tagged (don't-care, or the tag every fresh page carries).
QueueTags == {kDontCareTag, kInvalidTag}

InitQueue ==
    /\ Constructed(QueueSize)
    /\ ThreadsAt("idle")
    /\ StatusInitialized(0)
    /\ SatAt("init_pages")

QueueGetEmpty(t) ==
    /\ \E tag \in QueueTags, first_try \in 0 .. (QueueSize - 1) :
          Client_GetEmpty(t, "src", tag, first_try)
    /\ UNCHANGED calls
    /\ UNCHANGED runVars

QueueGetValid(t) ==
    /\ \E tag \in QueueTags, first_try \in 0 .. (QueueSize - 1) :
          Client_GetValid(t, "src", tag, first_try)
    /\ UNCHANGED calls
    /\ UNCHANGED runVars

QueuePutEmpty(t) ==
    /\ Client_PutEmpty(t, "src")
    /\ UNCHANGED calls
    /\ UNCHANGED runVars

QueuePutValid(t) ==
    /\ \E pattern \in Patterns : Client_PutValid(t, "src", pattern)
    /\ UNCHANGED calls
    /\ UNCHANGED runVars

NextQueue ==
    \/ InitializePages_PutEmpty
    \/ \E t \in Threads : QueueGetEmpty(t)
    \/ \E t \in Threads : QueueGetValid(t)
    \/ \E t \in Threads : QueuePutEmpty(t)
    \/ \E t \in Threads : QueuePutValid(t)
    \/ \E t \in Threads : GetProbe(t)
    \/ \E t \in Threads : GetTagCheck(t)
    \/ \E t \in Threads : GetTryLock(t)
    \/ \E t \in Threads : GetLocked(t)
    \/ \E t \in Threads : PutStore(t)
    \/ \E t \in Threads : PutNull(t)
    \/ \E t \in Threads : PutUnlock(t)

SpecQueue == InitQueue /\ [][NextQueue]_vars

\* -------------------------------------------------------------- SpecWalk
\* Queues of every size; one queue call runs at a time, to its end.
WalkTags == {kDontCareTag} \cup {Pow2(r) : r \in Regions}

InitWalk ==
    /\ \E queuesize \in 1 .. MaxQueueSize : Constructed(queuesize)
    /\ ThreadsAt("idle")
    /\ StatusInitialized(0)
    /\ SatAt("init_pages")

OthersIdle(t) == \A u \in Threads \ {t} : pc[u] = "idle"

WalkCall(t) ==
    /\ OthersIdle(t)
    /\ calls < MaxCalls
    /\ calls' = calls + 1
    /\ UNCHANGED runVars

WalkGetEmpty(t) ==
    /\ WalkCall(t)
    /\ \E tag \in WalkTags, first_try \in 0 .. (MaxQueueSize - 1) :
          Client_GetEmpty(t, "src", tag, first_try)

WalkGetValid(t) ==
    /\ WalkCall(t)
    /\ \E tag \in WalkTags, first_try \in 0 .. (MaxQueueSize - 1) :
          Client_GetValid(t, "src", tag, first_try)

WalkPutEmpty(t) ==
    /\ WalkCall(t)
    /\ Client_PutEmpty(t, "src")

WalkPutValid(t) ==
    /\ WalkCall(t)
    /\ \E pattern \in Patterns : Client_PutValid(t, "src", pattern)

WalkRetag(t) ==
    /\ OthersIdle(t)
    /\ \E region \in Regions : Client_Retag(t, "src", region)

NextWalk ==
    \/ InitializePages_PutEmpty
    \/ \E t \in Threads : WalkGetEmpty(t)
    \/ \E t \in Threads : WalkGetValid(t)
    \/ \E t \in Threads : WalkPutEmpty(t)
    \/ \E t \in Threads : WalkPutValid(t)
    \/ \E t \in Threads : WalkRetag(t)
    \/ \E t \in Threads : GetProbe(t)
    \/ \E t \in Threads : GetTagCheck(t)
    \/ \E t \in Threads : GetTryLock(t)
    \/ \E t \in Threads : GetLocked(t)
    \/ \E t \in Threads : PutStore(t)
    \/ \E t \in Threads : PutNull(t)
    \/ \E t \in Threads : PutUnlock(t)

SpecWalk == InitWalk /\ [][NextWalk]_vars

\* ------------------------------------------------------------ SpecStatus
\* NumThreads workers registered on one WorkerStatus, spawned after
\* Initialize(); the queue is not used.
InitStatus ==
    /\ Constructed(0)
    /\ ThreadsAt("w_check")
    /\ StatusInitialized(NumThreads)
    /\ SatAt("run_loop")

NextStatus ==
    \/ \E t \in Threads : CR_Enter(t)
    \/ \E t \in Threads : CR_Poll(t)
    \/ \E t \in Threads : Worker_BarrierArrive(t)
    \/ \E t \in Threads : Worker_BarrierReturn(t)
    \/ \E t \in Threads : Work_Test(t)
    \/ \E t \in Threads, ok \in BOOLEAN : Work_Body(t, ok)
    \/ \E t \in Threads : RS_Lock(t)
    \/ \E t \in Threads : RS_Mutex(t)
    \/ \E t \in Threads : RS_Reinit(t)
    \/ Run_Pause
    \/ Run_Resume
    \/ Run_Stop
    \/ Sat_BarrierArrive
    \/ Sat_BarrierReturn
    \/ Sat_Join

SpecStatus == InitStatus /\ [][NextStatus]_vars

WorkerStep(t) ==
    \/ CR_Enter(t) \/ CR_Poll(t) \/ Worker_BarrierArrive(t) \/ Worker_BarrierReturn(t)
    \/ Work_Test(t) \/ (\E ok \in BOOLEAN : Work_Body(t, ok))
    \/ RS_Lock(t) \/ RS_Mutex(t) \/ RS_Reinit(t)

\* The control thread once it is inside a WorkerStatus call or JoinThreads.
SatCallStep == Sat_BarrierArrive \/ Sat_BarrierReturn \/ Sat_Join

\* Every thread that can take a step eventually does (preemptive OS threads).
FairStatus ==
    /\ SpecStatus
    /\ \A t \in Threads : WF_vars(WorkerStep(t))
    /\ WF_vars(SatCallStep)

\* -------------------------------------------------------------- SpecCopy
\* Sat::InitializePages, sat.cc:414: roughly 2/5 of all pages start Empty.
FreePages(pages) == (pages \div 5) * 2

\* The queue after Sat::InitializePages (sat.cc:534-560): every page has been
\* filled, taken once with GetValid, tagged with its region, and put back:
\* freepages_ of them as empty, the others as valid.
PagesInitialized(pages, empty, pattern) ==
    /\ q_size_ = pages
    /\ a_ = Generator(pages).a
    /\ c_ = Generator(pages).c
    /\ modlength_ = Generator(pages).modlength
    /\ pages_ = [i \in 0 .. (pages - 1) |->
                    page_entry(i * PageSize,
                               IF i \in empty THEN NULL ELSE pattern,
                               Pow2(0), 1)]
    /\ pagelocks_ = [i \in 0 .. (pages - 1) |-> NoThread]

\* CopyThread::Work (worker.cc:1446): while (IsReadyToRun()).
Copy_Test(t) ==
    /\ pc[t] = "w_test"
    /\ pc' = [pc EXCEPT ![t] = IF result[t] THEN "copy_getvalid" ELSE "rs_lock"]
    /\ UNCHANGED <<queueVars, frame, pe, held, result, probed, calls, statusVars>>

\* worker.cc:1448: result = result && sat_->GetValid(&src, tag_); the tag of
\* a worker is kDontCareTag unless tag mode is on.
Copy_GetValid(t) ==
    /\ pc[t] = "copy_getvalid"
    /\ loops[t] < MaxCopyLoops
    /\ \E first_try \in 0 .. (q_size_ - 1) :
          GetEnter(t, "src", "valid", kDontCareTag, first_try, "copy_got_src")
    /\ UNCHANGED <<queueVars, pe, held, result, calls, statusVars>>

\* worker.cc:1449: result = result && sat_->GetEmpty(&dst, tag_), which is
\* not called once result is false.
Copy_GetEmpty(t) ==
    /\ pc[t] = "copy_got_src"
    /\ IF result[t]
       THEN /\ \E first_try \in 0 .. (q_size_ - 1) :
                  GetEnter(t, "dst", "empty", kDontCareTag, first_try, "copy_got_dst")
       ELSE /\ pc' = [pc EXCEPT ![t] = "copy_got_dst"]
            /\ UNCHANGED <<frame, probed>>
    /\ UNCHANGED <<queueVars, pe, held, result, calls, statusVars>>

\* worker.cc:1450-1453 and 1465-1470: if (!result) break; else the page is
\* copied, dst.pattern = src.pattern, and PutValid(&dst) is called.
Copy_PutValid(t) ==
    /\ pc[t] = "copy_got_dst"
    /\ IF ~result[t]
       THEN /\ pc' = [pc EXCEPT ![t] = "rs_lock"]
            /\ UNCHANGED <<frame, pe>>
       ELSE /\ pe' = [pe EXCEPT ![t]["dst"].pattern = pe[t]["src"].pattern]
            /\ frame' = [frame EXCEPT ![t] =
                            [NoFrame EXCEPT !.pred = "valid",
                                            !.index = SlotOf(pe[t]["dst"]),
                                            !.h = "dst", !.ret = "copy_put_dst"]]
            /\ pc' = [pc EXCEPT ![t] = "put_store"]
    /\ UNCHANGED <<queueVars, held, result, probed, calls, statusVars>>

\* worker.cc:1473: result = result && sat_->PutEmpty(&src).
Copy_PutEmpty(t) ==
    /\ pc[t] = "copy_put_dst"
    /\ PutEnter(t, "src", "empty", "copy_put_src")
    /\ UNCHANGED <<queueVars, pe, held, result, probed, calls, statusVars>>

\* worker.cc:1482-1486: loops++ and the next iteration.
Copy_Loop(t) ==
    /\ pc[t] = "copy_put_src"
    /\ loops' = [loops EXCEPT ![t] = @ + 1]
    /\ pc' = [pc EXCEPT ![t] = "w_check"]
    /\ UNCHANGED <<queueVars, frame, pe, held, result, probed, calls>>
    /\ UNCHANGED <<status_, num_workers_, pause_barrier_, status_rwlock_,
                   num_workers_mutex_, paused, sat_pc, next_pause, next_resume>>
    /\ UNCHANGED runVars

\* NumThreads copy threads on a queue of CopyPages pages, of which the first
\* freepages_ came out of InitializePages empty; the run is never
\* paused (pause_delay_ 600 exceeds runtime_seconds_ 20, sat.cc:705, 798).
InitCopy ==
    /\ PagesInitialized(CopyPages, 0 .. (FreePages(CopyPages) - 1), 1)
    /\ ThreadsAt("w_check")
    /\ StatusInitialized(NumThreads)
    /\ SatAt("run_loop")

NextCopy ==
    \/ \E t \in Threads : CR_Enter(t)
    \/ \E t \in Threads : CR_Poll(t)
    \/ \E t \in Threads : Copy_Test(t)
    \/ \E t \in Threads : Copy_GetValid(t)
    \/ \E t \in Threads : Copy_GetEmpty(t)
    \/ \E t \in Threads : Copy_PutValid(t)
    \/ \E t \in Threads : Copy_PutEmpty(t)
    \/ \E t \in Threads : Copy_Loop(t)
    \/ \E t \in Threads : GetProbe(t)
    \/ \E t \in Threads : GetTryLock(t)
    \/ \E t \in Threads : GetLocked(t)
    \/ \E t \in Threads : PutStore(t)
    \/ \E t \in Threads : PutNull(t)
    \/ \E t \in Threads : PutUnlock(t)
    \/ \E t \in Threads : RS_Lock(t)
    \/ \E t \in Threads : RS_Mutex(t)
    \/ \E t \in Threads : RS_Reinit(t)
    \/ Run_Stop
    \/ Sat_Join

SpecCopy == InitCopy /\ [][NextCopy]_vars

\* --------------------------------------------------------------- SpecTag
\* The queue after Sat::InitializePages (sat.cc:534-560) on a machine with
\* NumRegions memory regions: page i lies in region i % NumRegions and
\* carries the tag 1 << region; the pages in `empty` were put back empty.
PagesTagged(pages, empty, pattern) ==
    /\ q_size_ = pages
    /\ a_ = Generator(pages).a
    /\ c_ = Generator(pages).c
    /\ modlength_ = Generator(pages).modlength
    /\ pages_ = [i \in 0 .. (pages - 1) |->
                    page_entry(i * PageSize,
                               IF i \in empty THEN NULL ELSE pattern,
                               Pow2(i % NumRegions), 1)]
    /\ pagelocks_ = [i \in 0 .. (pages - 1) |-> NoThread]

\* The tags workers take with in region mode (sat.cc:1230-1241): 1 << region.
RegionTags == {Pow2(r) : r \in Regions}

InitTag ==
    /\ PagesTagged(QueueSize, {0}, 1)
    /\ ThreadsAt("idle")
    /\ StatusInitialized(0)
    /\ SatAt("run_loop")

\* Sat::GetEmpty(pe, tag) by a worker of a region.
TagGetEmpty(t) ==
    /\ pc[t] = "idle"
    /\ "src" \notin held[t]
    /\ \E tag \in RegionTags, first_try \in 0 .. (q_size_ - 1) :
          GetEnter(t, "src", "empty", tag, first_try, "idle")
    /\ UNCHANGED <<queueVars, pe, held, result, calls, statusVars>>

\* Sat::GetValid(pe, tag) by a worker of a region.
TagGetValid(t) ==
    /\ pc[t] = "idle"
    /\ "src" \notin held[t]
    /\ \A i \in 0 .. (q_size_ - 1) : pages_[i].touch <= MaxTouch
    /\ \E tag \in RegionTags, first_try \in 0 .. (q_size_ - 1) :
          GetEnter(t, "src", "valid", tag, first_try, "idle")
    /\ UNCHANGED <<queueVars, pe, held, result, calls, statusVars>>

NextTag ==
    \/ \E t \in Threads : TagGetEmpty(t)
    \/ \E t \in Threads : TagGetValid(t)
    \/ \E t \in Threads : QueuePutEmpty(t)
    \/ \E t \in Threads : QueuePutValid(t)
    \/ \E t \in Threads : GetProbe(t)
    \/ \E t \in Threads : GetTagCheck(t)
    \/ \E t \in Threads : GetTryLock(t)
    \/ \E t \in Threads : GetLocked(t)
    \/ \E t \in Threads : PutStore(t)
    \/ \E t \in Threads : PutNull(t)
    \/ \E t \in Threads : PutUnlock(t)

SpecTag == InitTag /\ [][NextTag]_vars

\* ------------------------------------------------------------- SpecCheck
\* The post-run check of Sat::JoinThreads (sat.cc:1640-1699): the run's
\* workers have been joined, check threads are spawned on a WorkerStatus that
\* is already STOP, and are joined.
\* A worker of the run that has ended; it owns the lock of a page it left
\* its loop with (CopyThread::Work, worker.cc:1448-1453).
EndedWorker == NumThreads + 1

\* The queue when the run's workers have been joined: the pages in `empty`
\* are empty, the others valid; the pages in `leaked` are still locked by an
\* ended worker, the others unlocked.
PagesAfterRun(pages, empty, leaked, pattern) ==
    /\ q_size_ = pages
    /\ a_ = Generator(pages).a
    /\ c_ = Generator(pages).c
    /\ modlength_ = Generator(pages).modlength
    /\ pages_ = [i \in 0 .. (pages - 1) |->
                    page_entry(i * PageSize,
                               IF i \in empty THEN NULL ELSE pattern,
                               Pow2(0), 1)]
    /\ pagelocks_ = [i \in 0 .. (pages - 1) |->
                        IF i \in leaked THEN EndedWorker ELSE NoThread]

\* reap_check_status: Initialize() then StopWorkers() before the check
\* threads are spawned (sat.cc:1662-1664).
StatusStopped(n) ==
    /\ status_ = STOP
    /\ num_workers_ = n
    /\ pause_barrier_ = BarrierInit(n + 1)
    /\ status_rwlock_ = {}
    /\ num_workers_mutex_ = NoThread
    /\ loops = [t \in Threads |-> 0]
    /\ paused = [t \in Threads |-> FALSE]

\* CheckThread::Work (worker.cc:1397-1398): GetValid with no tag.
Check_GetValid(t) ==
    /\ pc[t] = "check_getvalid"
    /\ \E first_try \in 0 .. (q_size_ - 1) :
          GetEnter(t, "src", "valid", kDontCareTag, first_try, "check_got")
    /\ UNCHANGED <<queueVars, pe, held, result, calls, statusVars>>

\* worker.cc:1399-1416: a failed take ends the loop (an error only while
\* IsReadyToRunNoPause()); else the page is checked and put back, valid
\* while the status is not STOP and empty once it is.  `status` is the status
\* of the thread's WorkerStatus, `exit` where the thread goes after the loop.
CheckPut(t, status, exit) ==
    /\ pc[t] = "check_got"
    /\ IF ~result[t]
       THEN /\ pc' = [pc EXCEPT ![t] = exit]
            /\ result' = [result EXCEPT ![t] = (status = STOP)]
            /\ frame' = frame
       ELSE /\ PutEnter(t, "src", IF status # STOP THEN "valid" ELSE "empty",
                        "check_put")
            /\ result' = result
    /\ UNCHANGED <<queueVars, pe, held, probed, calls, statusVars>>

\* The check threads of the post-run check are on reap_check_status.
Check_Put(t) == CheckPut(t, status_, "rs_lock")

\* worker.cc:1417-1421: loops++ and the next iteration.
Check_Loop(t) ==
    /\ pc[t] = "check_put"
    /\ loops' = [loops EXCEPT ![t] = @ + 1]
    /\ pc' = [pc EXCEPT ![t] = "check_getvalid"]
    /\ UNCHANGED <<queueVars, frame, pe, held, result, probed, calls>>
    /\ UNCHANGED <<status_, num_workers_, pause_barrier_, status_rwlock_,
                   num_workers_mutex_, paused, sat_pc, next_pause, next_resume>>
    /\ UNCHANGED runVars

InitCheck ==
    /\ \E empty \in SUBSET (0 .. (CheckPages - 1)) :
          \E leaked \in SUBSET ((0 .. (CheckPages - 1)) \ empty) :
              /\ Cardinality(leaked) <= 1
              /\ PagesAfterRun(CheckPages, empty, leaked, 1)
    /\ ThreadsAt("check_getvalid")
    /\ StatusStopped(NumThreads)
    /\ SatAt("join")

NextCheck ==
    \/ \E t \in Threads : Check_GetValid(t)
    \/ \E t \in Threads : Check_Put(t)
    \/ \E t \in Threads : Check_Loop(t)
    \/ \E t \in Threads : GetProbe(t)
    \/ \E t \in Threads : GetTryLock(t)
    \/ \E t \in Threads : GetLocked(t)
    \/ \E t \in Threads : PutStore(t)
    \/ \E t \in Threads : PutNull(t)
    \/ \E t \in Threads : PutUnlock(t)
    \/ \E t \in Threads : RS_Lock(t)
    \/ \E t \in Threads : RS_Mutex(t)
    \/ \E t \in Threads : RS_Reinit(t)
    \/ Sat_Join

SpecCheck == InitCheck /\ [][NextCheck]_vars

\* -------------------------------------------------------------- SpecPool
\* The run with both WorkerStatus objects of Sat: power_spike_status_ (the
\* status variables of this module), which Sat::Run pauses and resumes, and
\* continuous_status_, which it never pauses.  Copy, file, disk and
\* cpu-frequency threads are on the first; check, invert, network, cpu-stress
\* and cache-coherency threads on the second (Sat::InitializeThreads,
\* sat.cc:1228-1555).
PowerSpikeThreads == {1}
ContinuousThreads == Threads \ PowerSpikeThreads

\* continuous_status_.status_: RUN from Initialize (sat.cc:1854) until
\* StopWorkers in JoinThreads (sat.cc:1623), which follows the return of
\* power_spike_status_.StopWorkers(); PauseWorkers is never called on it.
continuous_status_ == IF sat_pc \in {"join", "joined"} THEN STOP ELSE RUN

\* CheckThread::Work of a run-time check thread, one more iteration.
Pool_CheckGetValid(t) ==
    /\ loops[t] < MaxPoolLoops
    /\ Check_GetValid(t)

Pool_CheckPut(t) == CheckPut(t, continuous_status_, "cont_done")

\* InvertThread::Work (worker.cc:1508): while (IsReadyToRun()), that is
\* ContinueRunning on continuous_status_ (worker.cc:171-201): *paused = false,
\* true on RUN, false on STOP; the PAUSE branch needs a status nobody sets.
Inv_Test(t) ==
    /\ pc[t] = "inv_test"
    /\ continuous_status_ = STOP \/ loops[t] < MaxPoolLoops
    /\ paused' = [paused EXCEPT ![t] = FALSE]
    /\ result' = [result EXCEPT ![t] = (continuous_status_ = RUN)]
    /\ pc' = [pc EXCEPT ![t] = IF continuous_status_ = RUN
                               THEN "inv_getvalid" ELSE "cont_done"]
    /\ UNCHANGED <<queueVars, frame, pe, held, probed, calls>>
    /\ UNCHANGED <<status_, num_workers_, pause_barrier_, status_rwlock_,
                   num_workers_mutex_, loops, sat_pc, next_pause, next_resume>>
    /\ UNCHANGED runVars

\* worker.cc:1510: sat_->GetValid(&src).
Inv_GetValid(t) ==
    /\ pc[t] = "inv_getvalid"
    /\ \E first_try \in 0 .. (q_size_ - 1) :
          GetEnter(t, "src", "valid", kDontCareTag, first_try, "inv_got")
    /\ UNCHANGED <<queueVars, pe, held, result, calls, statusVars>>

\* worker.cc:1511-1534: a failed take breaks; else the page is inverted four
\* times, which restores its contents, and put back valid.
Inv_Put(t) ==
    /\ pc[t] = "inv_got"
    /\ IF ~result[t]
       THEN /\ pc' = [pc EXCEPT ![t] = "cont_done"]
            /\ frame' = frame
       ELSE PutEnter(t, "src", "valid", "inv_put")
    /\ UNCHANGED <<queueVars, pe, held, result, probed, calls, statusVars>>

\* worker.cc:1539: loops++ and the next test of the loop.
Inv_Loop(t) ==
    /\ pc[t] = "inv_put"
    /\ loops' = [loops EXCEPT ![t] = @ + 1]
    /\ pc' = [pc EXCEPT ![t] = "inv_test"]
    /\ UNCHANGED <<queueVars, frame, pe, held, result, probed, calls>>
    /\ UNCHANGED <<status_, num_workers_, pause_barrier_, status_rwlock_,
                   num_workers_mutex_, paused, sat_pc, next_pause, next_resume>>
    /\ UNCHANGED runVars

\* RemoveSelf of a thread on continuous_status_ (worker.cc:205-235): that
\* status is never PAUSE, so the thread goes straight through and ends.
Cont_RemoveSelf(t) ==
    /\ pc[t] = "cont_done"
    /\ pc' = [pc EXCEPT ![t] = "done"]
    /\ UNCHANGED <<queueVars, frame, pe, held, result, probed, calls, statusVars>>

InitPool ==
    /\ PagesInitialized(QueueSize, {0}, 1)
    /\ \E kind \in {"check_getvalid", "inv_test"} :
          pc = [t \in Threads |-> IF t \in PowerSpikeThreads
                                  THEN "w_check" ELSE kind]
    /\ frame = [t \in Threads |-> NoFrame]
    /\ pe = [t \in Threads |-> [h \in Handles |-> init_pe]]
    /\ held = [t \in Threads |-> {}]
    /\ result = [t \in Threads |-> TRUE]
    /\ probed = [t \in Threads |-> <<>>]
    /\ calls = 0
    /\ StatusInitialized(Cardinality(PowerSpikeThreads))
    /\ SatAt("run_loop")

NextPool ==
    \/ \E t \in Threads : CR_Enter(t)
    \/ \E t \in Threads : CR_Poll(t)
    \/ \E t \in Threads : Worker_BarrierArrive(t)
    \/ \E t \in Threads : Worker_BarrierReturn(t)
    \/ \E t \in Threads : Work_Test(t)
    \/ \E t \in Threads, ok \in BOOLEAN : Work_Body(t, ok)
    \/ \E t \in Threads : RS_Lock(t)
    \/ \E t \in Threads : RS_Mutex(t)
    \/ \E t \in Threads : RS_Reinit(t)
    \/ \E t \in Threads : Pool_CheckGetValid(t)
    \/ \E t \in Threads : Pool_CheckPut(t)
    \/ \E t \in Threads : Check_Loop(t)
    \/ \E t \in Threads : Inv_Test(t)
    \/ \E t \in Threads : Inv_GetValid(t)
    \/ \E t \in Threads : Inv_Put(t)
    \/ \E t \in Threads : Inv_Loop(t)
    \/ \E t \in Threads : Cont_RemoveSelf(t)
    \/ \E t \in Threads : GetProbe(t)
    \/ \E t \in Threads : GetTryLock(t)
    \/ \E t \in Threads : GetLocked(t)
    \/ \E t \in Threads : PutStore(t)
    \/ \E t \in Threads : PutNull(t)
    \/ \E t \in Threads : PutUnlock(t)
    \/ Run_Pause
    \/ Run_Resume
    \/ Run_Stop
    \/ Sat_BarrierArrive
    \/ Sat_BarrierReturn
    \/ Sat_Join

SpecPool == InitPool /\ [][NextPool]_vars

\* The threads on power_spike_status_ and the control thread inside a
\* WorkerStatus call keep taking their steps; nothing is assumed of the
\* threads on continuous_status_.
FairPool ==
    /\ SpecPool
    /\ \A t \in PowerSpikeThreads : WF_vars(WorkerStep(t))
    /\ WF_vars(SatCallStep)

\* ------------------------------------------------------------ SpecInject
\* Sat::Run with a copy thread running and, when crazy_error_injection_ is
\* set, the error injection of the run loop (sat.cc:2014-2026).  The control
\* thread's page_entry src and its call into the queue take the last thread
\* slot of the module; the workers are the other threads.
ControlThread == NumThreads
Workers == Threads \ {ControlThread}

\* patternlist_->GetPattern(0): the first pattern of the catalog.
FirstPattern == 1
\* The pattern the pages were filled with, another one of the catalog.
FillPattern == 2

\* sat.cc:2014-2022: next_injection is due; struct page_entry src;
\* GetValid(&src), whose result is not tested.
Inj_GetValid ==
    /\ sat_pc = "run_loop"
    /\ pc[ControlThread] = "inj_idle"
    /\ loops[ControlThread] < MaxInjections
    /\ \E first_try \in 0 .. (q_size_ - 1) :
          GetEnter(ControlThread, "src", "valid", kDontCareTag, first_try, "inj_got")
    /\ UNCHANGED <<queueVars, pe, held, result, calls, statusVars>>

\* Variant: the page is put back with the pattern it was taken with.
Inj_Put_SamePattern ==
    /\ pc[ControlThread] = "inj_got"
    /\ result[ControlThread]
    /\ PutEnter(ControlThread, "src", "valid", "inj_put")
    /\ UNCHANGED <<queueVars, pe, held, result, probed, calls, statusVars>>

\* sat.cc:2023-2024: src.pattern = patternlist_->GetPattern(0); PutValid(&src).
\* After a failed GetValid src is uninitialized: PutValid works on whatever
\* offset it holds, out of range (nothing happens) or the offset of some
\* slot, which it overwrites and whose mutex it unlocks.
Inj_Put ==
    /\ pc[ControlThread] = "inj_got"
    /\ IF result[ControlThread]
       THEN /\ pe' = [pe EXCEPT ![ControlThread]["src"].pattern = FirstPattern]
            /\ PutEnter(ControlThread, "src", "valid", "inj_put")
            /\ UNCHANGED queueVars
       ELSE /\ \E g \in 0 .. q_size_ :
                  IF g = q_size_
                  THEN UNCHANGED <<pages_, pagelocks_>>
                  ELSE /\ \E touch \in 0 .. MaxTouch :
                            pages_' = [pages_ EXCEPT ![g] =
                                page_entry(g * PageSize, FirstPattern, Pow2(0), touch)]
                       /\ \E unlocked \in BOOLEAN :
                            pagelocks_' = IF unlocked
                                          THEN [pagelocks_ EXCEPT ![g] = NoThread]
                                          ELSE pagelocks_
            /\ pc' = [pc EXCEPT ![ControlThread] = "inj_put"]
            /\ UNCHANGED <<q_size_, a_, c_, modlength_, frame, pe>>
    /\ UNCHANGED <<held, result, probed, calls, statusVars>>

\* sat.cc:2025: next_injection = NextOccurance(...), back to the run loop.
Inj_Next ==
    /\ pc[ControlThread] = "inj_put"
    /\ loops' = [loops EXCEPT ![ControlThread] = @ + 1]
    /\ pc' = [pc EXCEPT ![ControlThread] = "inj_idle"]
    /\ UNCHANGED <<queueVars, frame, pe, held, result, probed, calls>>
    /\ UNCHANGED <<status_, num_workers_, pause_barrier_, status_rwlock_,
                   num_workers_mutex_, paused, sat_pc, next_pause, next_resume>>
    /\ UNCHANGED runVars

\* The run loop ends between two iterations (sat.cc:1978-2003).
Inj_Stop ==
    /\ pc[ControlThread] \in {"inj_idle", "inj_off"}
    /\ Run_Stop

\* Past the run loop the control thread injects nothing more.
Inj_End ==
    /\ sat_pc = "join"
    /\ pc[ControlThread] \in {"inj_idle", "inj_off"}
    /\ pc' = [pc EXCEPT ![ControlThread] = "done"]
    /\ UNCHANGED <<queueVars, frame, pe, held, result, probed, calls, statusVars>>

\* next_injection is start + kInjectionFrequency with crazy_error_injection_
\* and 0, never due, without it (sat.cc:1971-1976).
InitInject ==
    /\ PagesInitialized(CopyPages, 0 .. (FreePages(CopyPages) - 1), FillPattern)
    /\ \E injection \in {"inj_idle", "inj_off"} :
          pc = [t \in Threads |-> IF t = ControlThread THEN injection ELSE "w_check"]
    /\ frame = [t \in Threads |-> NoFrame]
    /\ pe = [t \in Threads |-> [h \in Handles |-> init_pe]]
    /\ held = [t \in Threads |-> {}]
    /\ result = [t \in Threads |-> TRUE]
    /\ probed = [t \in Threads |-> <<>>]
    /\ calls = 0
    /\ StatusInitialized(Cardinality(Workers))
    /\ SatAt("run_loop")

NextInject ==
    \/ \E t \in Threads : CR_Enter(t)
    \/ \E t \in Threads : CR_Poll(t)
    \/ \E t \in Threads : Copy_Test(t)
    \/ \E t \in Threads : Copy_GetValid(t)
    \/ \E t \in Threads : Copy_GetEmpty(t)
    \/ \E t \in Threads : Copy_PutValid(t)
    \/ \E t \in Threads : Copy_PutEmpty(t)
    \/ \E t \in Threads : Copy_Loop(t)
    \/ \E t \in Threads : GetProbe(t)
    \/ \E t \in Threads : GetTryLock(t)
    \/ \E t \in Threads : GetLocked(t)
    \/ \E t \in Threads : PutStore(t)
    \/ \E t \in Threads : PutNull(t)
    \/ \E t \in Threads : PutUnlock(t)
    \/ \E t \in Threads : RS_Lock(t)
    \/ \E t \in Threads : RS_Mutex(t)
    \/ \E t \in Threads : RS_Reinit(t)
    \/ Inj_GetValid
    \/ Inj_Put
    \/ Inj_Next
    \/ Inj_Stop
    \/ Inj_End
    \/ Sat_Join

SpecInject == InitInject /\ [][NextInject]_vars

\* ---------------------------------------------------------------- SpecFill
\* The fill phase of Sat::InitializePages (sat.cc:455-526): every page has
\* been put empty, fill_threads_ = NumThreads fill threads on their own
\* WorkerStatus fill the pages, and the control thread joins them.

\* The queue after the first loop of InitializePages (sat.cc:456-461):
\* PutEmpty of init_pe with the page's offset, which unlocks the slot.
PagesEmptied(pages) ==
    /\ q_size_ = pages
    /\ a_ = Generator(pages).a
    /\ c_ = Generator(pages).c
    /\ modlength_ = Generator(pages).modlength
    /\ pages_ = [i \in 0 .. (pages - 1) |->
                    page_entry(i * PageSize, NULL, kInvalidTag, 0)]
    /\ pagelocks_ = [i \in 0 .. (pages - 1) |-> NoThread]

\* Variant: every thread's share rounded up.
num_pages_to_fill_RoundUp(t) == (q_size_ \div NumThreads) + 1

\* SetFillPages (sat.cc:483-500) for thread i = t - 1 of fill_threads_:
\* pages_ / fill_threads_, and for the last thread the leftover
\* pages_ - pages_ / fill_threads_ * i.
num_pages_to_fill_(t) ==
    IF t # NumThreads
    THEN q_size_ \div NumThreads
    ELSE q_size_ - (q_size_ \div NumThreads) * (t - 1)

\* worker.cc:548: while (IsReadyToRun() && (loops < num_pages_to_fill_)).
Fill_Test(t) ==
    /\ pc[t] = "w_test"
    /\ pc' = [pc EXCEPT ![t] = IF result[t] /\ loops[t] < num_pages_to_fill_(t)
                               THEN "fill_getempty" ELSE "rs_lock"]
    /\ UNCHANGED <<queueVars, frame, pe, held, result, probed, calls, statusVars>>

\* worker.cc:549: sat_->GetEmpty(&pe).
Fill_GetEmpty(t) ==
    /\ pc[t] = "fill_getempty"
    /\ \E first_try \in 0 .. (q_size_ - 1) :
          GetEnter(t, "src", "empty", kDontCareTag, first_try, "fill_got")
    /\ UNCHANGED <<queueVars, pe, held, result, calls, statusVars>>

\* worker.cc:550-560: a failed take breaks; else FillPageRandom gives the
\* page a pattern of the list and the page is put back valid.
Fill_PutValid(t) ==
    /\ pc[t] = "fill_got"
    /\ IF ~result[t]
       THEN /\ pc' = [pc EXCEPT ![t] = "rs_lock"]
            /\ UNCHANGED <<frame, pe>>
       ELSE \E p \in 1 .. NumPatterns :
               /\ pe' = [pe EXCEPT ![t]["src"].pattern = p]
               /\ frame' = [frame EXCEPT ![t] =
                               [NoFrame EXCEPT !.pred = "valid",
                                               !.index = SlotOf(pe[t]["src"]),
                                               !.h = "src", !.ret = "fill_put"]]
               /\ pc' = [pc EXCEPT ![t] = "put_store"]
    /\ UNCHANGED <<queueVars, held, result, probed, calls, statusVars>>

\* worker.cc:565: loops++.
Fill_Loop(t) ==
    /\ pc[t] = "fill_put"
    /\ loops' = [loops EXCEPT ![t] = @ + 1]
    /\ pc' = [pc EXCEPT ![t] = "w_check"]
    /\ UNCHANGED <<queueVars, frame, pe, held, result, probed, calls>>
    /\ UNCHANGED <<status_, num_workers_, pause_barrier_, status_rwlock_,
                   num_workers_mutex_, paused, sat_pc, next_pause, next_resume>>
    /\ UNCHANGED runVars

InitFill ==
    /\ PagesEmptied(FillPages)
    /\ ThreadsAt("w_check")
    /\ StatusInitialized(NumThreads)
    /\ SatAt("join")

NextFill ==
    \/ \E t \in Threads : CR_Enter(t)
    \/ \E t \in Threads : CR_Poll(t)
    \/ \E t \in Threads : Fill_Test(t)
    \/ \E t \in Threads : Fill_GetEmpty(t)
    \/ \E t \in Threads : Fill_PutValid(t)
    \/ \E t \in Threads : Fill_Loop(t)
    \/ \E t \in Threads : GetProbe(t)
    \/ \E t \in Threads : GetTryLock(t)
    \/ \E t \in Threads : GetLocked(t)
    \/ \E t \in Threads : PutStore(t)
    \/ \E t \in Threads : PutUnlock(t)
    \/ \E t \in Threads : RS_Lock(t)
    \/ \E t \in Threads : RS_Mutex(t)
    \/ \E t \in Threads : RS_Reinit(t)
    \/ Sat_Join

SpecFill == InitFill /\ [][NextFill]_vars

\* -------------------------------------------------------------- SpecLocate
\* The page-location pass of Sat::InitializePages (sat.cc:534-567), run by
\* the control thread alone once the fill threads have been joined.  The
\* control thread's page_entry pe and its call into the queue take the first
\* thread slot of the module; loops of that slot is the loop index i.
LocThread == 1

\* The queue after the fill phase (sat.cc:455-526): every page was put empty
\* with the tag of init_pe, taken with GetEmpty and put back valid.
PagesFilled(pages, pattern) ==
    /\ q_size_ = pages
    /\ a_ = Generator(pages).a
    /\ c_ = Generator(pages).c
    /\ modlength_ = Generator(pages).modlength
    /\ pages_ = [i \in 0 .. (pages - 1) |->
                    page_entry(i * PageSize, pattern, kInvalidTag, 0)]
    /\ pagelocks_ = [i \in 0 .. (pages - 1) |-> NoThread]

\* sat.cc:535-538: for (i = 0; i < pages_; i++) GetValid(&pe, kInvalidTag).
Loc_GetValid ==
    /\ pc[LocThread] = "loc_idle"
    /\ loops[LocThread] < q_size_
    /\ \E first_try \in 0 .. (q_size_ - 1) :
          GetEnter(LocThread, "src", "valid", kInvalidTag, first_try, "loc_got")
    /\ UNCHANGED <<queueVars, pe, held, result, calls, statusVars>>

\* sat.cc:538-566: a failed take ends InitializePages with false; else
\* pe.tag = 1 << region, for the region os_->FindRegion gives the page's
\* physical address, and the page is put back, empty for the first
\* freepages_ iterations and valid for the others.
Loc_Put ==
    /\ pc[LocThread] = "loc_got"
    /\ IF ~result[LocThread]
       THEN /\ pc' = [pc EXCEPT ![LocThread] = "loc_failed"]
            /\ UNCHANGED <<frame, pe>>
       ELSE \E region \in Regions :
               /\ pe' = [pe EXCEPT ![LocThread]["src"].tag = Pow2(region)]
               /\ PutEnter(LocThread, "src",
                           IF loops[LocThread] < FreePages(q_size_)
                           THEN "empty" ELSE "valid", "loc_put")
    /\ UNCHANGED <<queueVars, held, result, probed, calls, statusVars>>

\* sat.cc:535: i++.
Loc_Next ==
    /\ pc[LocThread] = "loc_put"
    /\ loops' = [loops EXCEPT ![LocThread] = @ + 1]
    /\ pc' = [pc EXCEPT ![LocThread] =
                 IF loops[LocThread] + 1 < q_size_ THEN "loc_idle" ELSE "loc_done"]
    /\ UNCHANGED <<queueVars, frame, pe, held, result, probed, calls>>
    /\ UNCHANGED <<status_, num_workers_, pause_barrier_, status_rwlock_,
                   num_workers_mutex_, paused, sat_pc, next_pause, next_resume>>
    /\ UNCHANGED runVars

InitLocate ==
    /\ PagesFilled(CopyPages, 1)
    /\ pc = [t \in Threads |-> IF t = LocThread THEN "loc_idle" ELSE "idle"]
    /\ frame = [t \in Threads |-> NoFrame]
    /\ pe = [t \in Threads |-> [h \in Handles |-> init_pe]]
    /\ held = [t \in Threads |-> {}]
    /\ result = [t \in Threads |-> TRUE]
    /\ probed = [t \in Threads |-> <<>>]
    /\ calls = 0
    /\ StatusInitialized(0)
    /\ SatAt("idle")

NextLocate ==
    \/ Loc_GetValid
    \/ Loc_Put
    \/ Loc_Next
    \/ GetProbe(LocThread)
    \/ GetTagCheck(LocThread)
    \/ GetTryLock(LocThread)
    \/ GetLocked(LocThread)
    \/ PutStore(LocThread)
    \/ PutNull(LocThread)
    \/ PutUnlock(LocThread)

SpecLocate == InitLocate /\ [][NextLocate]_vars

\* --------------------------------------------------------------- SpecPause
\* The run of SpecCopy with the pause of the run loop (sat.cc:2028-2040):
\* NumThreads copy threads, all on power_spike_status_, and the control
\* thread, which calls PauseWorkers once the pause is due and keeps the
\* workers paused until the end of the window.
RECURSIVE SumLoops(_)
SumLoops(T) ==
    IF T = {} THEN 0
    ELSE LET t == CHOOSE x \in T : TRUE IN loops[t] + SumLoops(T \ {t})

\* worker.cc:1448: GetValid(&src, tag_), while the threads together have
\* completed fewer than MaxPauseCopies copies.
Pause_GetValid(t) ==
    /\ pc[t] = "copy_getvalid"
    /\ SumLoops(Threads) < MaxPauseCopies
    /\ \E first_try \in 0 .. (q_size_ - 1) :
          GetEnter(t, "src", "valid", kDontCareTag, first_try, "copy_got_src")
    /\ UNCHANGED <<queueVars, pe, held, result, calls, statusVars>>

NextPause ==
    \/ \E t \in Threads : CR_Enter(t)
    \/ \E t \in Threads : CR_Poll(t)
    \/ \E t \in Threads : Worker_BarrierArrive(t)
    \/ \E t \in Threads : Worker_BarrierReturn(t)
    \/ \E t \in Threads : Copy_Test(t)
    \/ \E t \in Threads : Pause_GetValid(t)
    \/ \E t \in Threads : Copy_GetEmpty(t)
    \/ \E t \in Threads : Copy_PutValid(t)
    \/ \E t \in Threads : Copy_PutEmpty(t)
    \/ \E t \in Threads : Copy_Loop(t)
    \/ \E t \in Threads : GetProbe(t)
    \/ \E t \in Threads : GetTryLock(t)
    \/ \E t \in Threads : GetLocked(t)
    \/ \E t \in Threads : PutStore(t)
    \/ \E t \in Threads : PutNull(t)
    \/ \E t \in Threads : PutUnlock(t)
    \/ \E t \in Threads : RS_Lock(t)
    \/ \E t \in Threads : RS_Mutex(t)
    \/ \E t \in Threads : RS_Reinit(t)
    \/ Run_Pause
    \/ Sat_BarrierArrive
    \/ Sat_BarrierReturn

SpecPause == InitCopy /\ [][NextPause]_vars

\* ---------------------------------------------------------------- SpecRace
\* The run of SpecInject with the injection on and a copy thread that makes
\* one more copy, enough for it to have held or moved every valid page
\* during a single take of the control thread.
Race_GetValid(t) ==
    /\ pc[t] = "copy_getvalid"
    /\ loops[t] < MaxRaceLoops
    /\ \E first_try \in 0 .. (q_size_ - 1) :
          GetEnter(t, "src", "valid", kDontCareTag, first_try, "copy_got_src")
    /\ UNCHANGED <<queueVars, pe, held, result, calls, statusVars>>

InitRace ==
    /\ InitInject
    /\ pc[ControlThread] = "inj_idle"

NextRace ==
    \/ \E t \in Threads : CR_Enter(t)
    \/ \E t \in Threads : CR_Poll(t)
    \/ \E t \in Threads : Copy_Test(t)
    \/ \E t \in Threads : Race_GetValid(t)
    \/ \E t \in Threads : Copy_GetEmpty(t)
    \/ \E t \in Threads : Copy_PutValid(t)
    \/ \E t \in Threads : Copy_PutEmpty(t)
    \/ \E t \in Threads : Copy_Loop(t)
    \/ \E t \in Threads : GetProbe(t)
    \/ \E t \in Threads : GetTryLock(t)
    \/ \E t \in Threads : GetLocked(t)
    \/ \E t \in Threads : PutStore(t)
    \/ \E t \in Threads : PutNull(t)
    \/ \E t \in Threads : PutUnlock(t)
    \/ \E t \in Threads : RS_Lock(t)
    \/ \E t \in Threads : RS_Mutex(t)
    \/ \E t \in Threads : RS_Reinit(t)
    \/ Inj_GetValid
    \/ Inj_Put
    \/ Inj_Next
    \/ Inj_Stop
    \/ Inj_End
    \/ Sat_Join

SpecRace == InitRace /\ [][NextRace]_vars

\* --------------------------------------------------------------- SpecRun
\* main and Sat::Run from the run loop to the exit status: workers that count
\* errors, the stop conditions of the loop, JoinThreads with the post-run
\* check, and main's return value.  The run is not paused.
RECURSIVE SumOver(_, _)
SumOver(f, S) ==
    IF S = {} THEN 0
    ELSE LET t == CHOOSE x \in S : TRUE IN f[t] + SumOver(f, S \ {t})

\* Sat::GetTotalErrorCount (sat.cc:1835-1848): the sum of GetErrorCount()
\* over the threads of workers_map_, the run's workers.
GetTotalErrorCount == SumOver(errorcount_, Threads)

\* A worker finds a miscompare in its unit of work: it reports a diagnosis
\* and counts the error (WorkerThread::CheckRegion, worker.cc:837-844).
Work_Error(t) ==
    /\ pc[t] = "w_body"
    /\ errorcount_[t] < MaxErrors
    /\ errorcount_' = [errorcount_ EXCEPT ![t] = @ + 1]
    /\ UNCHANGED <<queueVars, threadVars>>
    /\ UNCHANGED <<status_, num_workers_, pause_barrier_, status_rwlock_,
                   num_workers_mutex_, loops, paused, sat_pc, next_pause, next_resume>>
    /\ UNCHANGED <<check_errorcount_, sat_errorcount_, statuscount_,
                   max_errorcount_, user_break_, seconds_remaining, retval>>
    /\ UNCHANGED unitVars

\* SIGINT or SIGTERM during the run: SatHandleBreak, g_sat->Break()
\* (sat.cc:72, 1942-1943).
SatHandleBreak ==
    /\ sat_pc = "run_loop"
    /\ ~user_break_
    /\ user_break_' = TRUE
    /\ UNCHANGED <<queueVars, threadVars>>
    /\ UNCHANGED <<status_, num_workers_, pause_barrier_, status_rwlock_,
                   num_workers_mutex_, loops, paused, sat_pc, next_pause, next_resume>>
    /\ UNCHANGED <<errorcount_, check_errorcount_, sat_errorcount_, statuscount_,
                   max_errorcount_, seconds_remaining, retval>>
    /\ UNCHANGED unitVars

\* sat.cc:1992-2003: if (max_errorcount_ != 0) and errors > max_errorcount_.
ErrorLimitReached ==
    max_errorcount_ # 0 /\ GetTotalErrorCount > max_errorcount_

\* sat.cc:1978-2003: the loop ends when now >= end, on user_break_, or on
\* the error limit.
LoopEnds == seconds_remaining = 0 \/ user_break_ \/ ErrorLimitReached

\* Variant: the loop goes on in spite of a user break.
Run_Sleep_IgnoreBreak ==
    /\ sat_pc = "run_loop"
    /\ seconds_remaining # 0 /\ ~ErrorLimitReached
    /\ seconds_remaining' = seconds_remaining - 1
    /\ UNCHANGED <<queueVars, threadVars>>
    /\ UNCHANGED <<status_, num_workers_, pause_barrier_, status_rwlock_,
                   num_workers_mutex_, loops, paused, sat_pc, next_pause, next_resume>>
    /\ UNCHANGED <<errorcount_, check_errorcount_, sat_errorcount_, statuscount_,
                   max_errorcount_, user_break_, retval>>
    /\ UNCHANGED unitVars

\* sat.cc:2056-2057: no reason to stop at this poll; sat_sleep until the
\* next one and now = time(NULL).
Run_Sleep ==
    /\ sat_pc = "run_loop"
    /\ ~LoopEnds
    /\ seconds_remaining' = seconds_remaining - 1
    /\ UNCHANGED <<queueVars, threadVars>>
    /\ UNCHANGED <<status_, num_workers_, pause_barrier_, status_rwlock_,
                   num_workers_mutex_, loops, paused, sat_pc, next_pause, next_resume>>
    /\ UNCHANGED <<errorcount_, check_errorcount_, sat_errorcount_, statuscount_,
                   max_errorcount_, user_break_, retval>>
    /\ UNCHANGED unitVars

\* The loop ends at this poll; JoinThreads stops the workers (sat.cc:2060,
\* 1622-1623).
Run_End ==
    /\ LoopEnds
    /\ Run_Stop

\* A post-run check thread finds a miscompare (CheckThread::Work,
\* worker.cc:1408; WorkerThread::CheckRegion, worker.cc:837-844).
Reap_Error(t) ==
    /\ sat_pc = "joined"
    /\ check_errorcount_[t] < MaxErrors
    /\ check_errorcount_' = [check_errorcount_ EXCEPT ![t] = @ + 1]
    /\ UNCHANGED <<queueVars, threadVars>>
    /\ UNCHANGED <<status_, num_workers_, pause_barrier_, status_rwlock_,
                   num_workers_mutex_, loops, paused, sat_pc, next_pause, next_resume>>
    /\ UNCHANGED <<errorcount_, sat_errorcount_, statuscount_,
                   max_errorcount_, user_break_, seconds_remaining, retval>>
    /\ UNCHANGED unitVars

\* sat.cc:1685-1699: the check threads are joined; errorcount_ +=
\* GetErrorCount() for each of them, and they are deleted.
Reap_Check ==
    /\ sat_pc = "joined"
    /\ sat_errorcount_' = sat_errorcount_ + SumOver(check_errorcount_, Threads)
    /\ sat_pc' = "reaped"
    /\ UNCHANGED <<queueVars, threadVars>>
    /\ UNCHANGED <<status_, num_workers_, pause_barrier_, status_rwlock_,
                   num_workers_mutex_, loops, paused, next_pause, next_resume>>
    /\ UNCHANGED <<errorcount_, check_errorcount_, statuscount_,
                   max_errorcount_, user_break_, seconds_remaining, retval>>
    /\ UNCHANGED unitVars

\* sat.cc:1708-1709: "Find all errors": errorcount_ = GetTotalErrorCount().
\* Sat::Run then returns true (sat.cc:2062-2071).
Reap_Total ==
    /\ sat_pc = "reaped"
    /\ sat_errorcount_' = GetTotalErrorCount
    /\ sat_pc' = "run_done"
    /\ UNCHANGED <<queueVars, threadVars>>
    /\ UNCHANGED <<status_, num_workers_, pause_barrier_, status_rwlock_,
                   num_workers_mutex_, loops, paused, next_pause, next_resume>>
    /\ UNCHANGED <<errorcount_, check_errorcount_, statuscount_,
                   max_errorcount_, user_break_, seconds_remaining, retval>>
    /\ UNCHANGED unitVars

\* main.cc:29-44: Cleanup returns true; retval is 1 if status() != 0 or
\* errors() != 0, else 0.
Main_Exit ==
    /\ sat_pc = "run_done"
    /\ retval' = IF statuscount_ # 0 THEN 1
                 ELSE IF sat_errorcount_ # 0 THEN 1 ELSE 0
    /\ sat_pc' = "exited"
    /\ UNCHANGED <<queueVars, threadVars>>
    /\ UNCHANGED <<status_, num_workers_, pause_barrier_, status_rwlock_,
                   num_workers_mutex_, loops, paused, next_pause, next_resume>>
    /\ UNCHANGED <<errorcount_, check_errorcount_, sat_errorcount_, statuscount_,
                   max_errorcount_, user_break_, seconds_remaining>>
    /\ UNCHANGED unitVars

\* main.cc:19-28: ParseArgs and Initialize succeed and Sat::Run starts its
\* loop with the workers spawned; or one of them fails, bad_status() is
\* called and no thread is ever spawned.
InitRun ==
    /\ Constructed(0)
    /\ StatusInitialized(NumThreads)
    /\ next_pause = 1
    /\ next_resume = 0
    /\ \E max_errors \in 0 .. MaxErrorLimit, started \in BOOLEAN :
          /\ errorcount_ = [t \in Threads |-> 0]
          /\ check_errorcount_ = [t \in Threads |-> 0]
          /\ sat_errorcount_ = 0
          /\ max_errorcount_ = max_errors
          /\ user_break_ = FALSE
          /\ seconds_remaining = RunSeconds
          /\ retval = -1
          /\ UnitsIdle
          /\ IF started
             THEN statuscount_ = 0 /\ sat_pc = "run_loop" /\ ThreadsAt("w_check")
             ELSE statuscount_ = 1 /\ sat_pc = "run_done" /\ ThreadsAt("idle")

NextRun ==
    \/ \E t \in Threads : CR_Enter(t)
    \/ \E t \in Threads : CR_Poll(t)
    \/ \E t \in Threads : Work_Test(t)
    \/ \E t \in Threads, ok \in BOOLEAN : Work_Body(t, ok)
    \/ \E t \in Threads : Work_Error(t)
    \/ \E t \in Threads : RS_Lock(t)
    \/ \E t \in Threads : RS_Mutex(t)
    \/ \E t \in Threads : RS_Reinit(t)
    \/ SatHandleBreak
    \/ Run_Sleep
    \/ Run_End
    \/ Sat_Join
    \/ \E t \in Threads : Reap_Error(t)
    \/ Reap_Check
    \/ Reap_Total
    \/ Main_Exit

SpecRun == InitRun /\ [][NextRun]_vars

\* -------------------------------------------------------------- SpecRing
\* The coarse-grain queue (queue.cc): one ring of page entries under one
\* mutex.  Push and PopRandom hold q_mutex_ from their first read of the
\* indices to their last write, so each is one step.  The callers
\* (sat.cc:235, 260, 276, 296) pass the address of a page_entry of their own,
\* never NULL, and a page is in one place at a time.
RingEntries == 1 .. (RingPages + 1)

\* The number of entries the ring holds, and the slots that hold them.
RingCount == (nextin_ - nextout_ + ring_size_) % ring_size_

RingHeld == {(nextout_ + k) % ring_size_ : k \in 0 .. (RingCount - 1)}

\* All the other objects, as constructed and at rest.
RestIdle ==
    /\ Constructed(0)
    /\ ThreadsAt("idle")
    /\ StatusInitialized(0)
    /\ sat_pc = "idle"
    /\ next_pause = 1
    /\ next_resume = 0
    /\ SatCounters(0, RunSeconds)

InitRing ==
    /\ RestIdle
    /\ PageEntryQueue(RingPages)
    /\ RandSeeded(0)
    /\ CcAllocated(0, 0)
    /\ BlockIdle
    /\ CoarseIdle
    /\ FreqIdle

\* queue.cc:42-63: Push(pe).
RingPush(p) ==
    /\ pushed_ < MaxPushes
    /\ \A i \in RingHeld : ring_[i] # p
    /\ LET nextnextin == (nextin_ + 1) % ring_size_ IN
          IF p # NULL /\ nextnextin # nextout_
          THEN /\ ring_' = [ring_ EXCEPT ![nextin_] = p]
               /\ nextin_' = nextnextin
               /\ pushed_' = pushed_ + 1
               /\ ring_ret' = [op |-> "push", result |-> 1, pe |-> p]
               /\ UNCHANGED <<ring_size_, nextout_, popped_>>
          ELSE /\ ring_ret' = [op |-> "push", result |-> 0, pe |-> p]
               /\ UNCHANGED <<ring_, ring_size_, nextin_, nextout_, pushed_, popped_>>
    /\ UNCHANGED <<queueVars, threadVars>>
    /\ UNCHANGED <<status_, num_workers_, pause_barrier_, status_rwlock_,
                   num_workers_mutex_, loops, paused, sat_pc, next_pause, next_resume>>
    /\ UNCHANGED <<errorcount_, check_errorcount_, sat_errorcount_, statuscount_,
                   max_errorcount_, user_break_, seconds_remaining, retval, randVars, ccVars, regionVars, coarseVars, freqVars>>

\* queue.cc:94-97: the slot PopRandom exchanges with the next-out slot, for
\* a value rand of random().
newindex(rand) ==
    LET lastin == (nextin_ - 1 + ring_size_) % ring_size_
        entries == (lastin - nextout_ + ring_size_) % ring_size_
    IN  IF entries # 0
        THEN ((rand % entries) + nextout_) % ring_size_
        ELSE nextout_

\* queue.cc:66-115: PopRandom(pe), random() having returned rand.
PopRandom(rand) ==
    /\ IF nextin_ # nextout_
       THEN LET swapped == [ring_ EXCEPT ![nextout_] = ring_[newindex(rand)],
                                         ![newindex(rand)] = ring_[nextout_]]
            IN  /\ ring_' = swapped
                /\ ring_ret' = [op |-> "pop", result |-> 1, pe |-> swapped[nextout_]]
                /\ nextout_' = (nextout_ + 1) % ring_size_
                /\ popped_' = popped_ + 1
                /\ UNCHANGED <<ring_size_, nextin_, pushed_>>
       ELSE /\ ring_ret' = [op |-> "pop", result |-> 0, pe |-> NULL]
            /\ UNCHANGED <<ring_, ring_size_, nextin_, nextout_, pushed_, popped_>>
    /\ UNCHANGED <<queueVars, threadVars>>
    /\ UNCHANGED <<status_, num_workers_, pause_barrier_, status_rwlock_,
                   num_workers_mutex_, loops, paused, sat_pc, next_pause, next_resume>>
    /\ UNCHANGED <<errorcount_, check_errorcount_, sat_errorcount_, statuscount_,
                   max_errorcount_, user_break_, seconds_remaining, retval, randVars, ccVars, regionVars, coarseVars, freqVars>>

NextRing ==
    \/ \E p \in RingEntries : RingPush(p)
    \/ \E rand \in 0 .. MaxRand : PopRandom(rand)

SpecRing == InitRing /\ [][NextRing]_vars

\* -------------------------------------------------------------- SpecRand
\* FineLockPEQueue::GetRandom64 (finelock_queue.cc:224-245), called at the
\* start of every take (finelock_queue.cc:260) by num_callers threads.
\* pthread_mutex_lock returns non-zero only for a mutex that is not valid,
\* which randlocks_[0] always is, so the lines after the blocking lock
\* (242-245) are not reached.
InitRand ==
    /\ RestIdle
    /\ PageEntryQueue(RingPages)
    /\ \E n \in 1 .. NumCallers : RandSeeded(n)
    /\ CcAllocated(0, 0)
    /\ BlockIdle
    /\ CoarseIdle
    /\ FreqIdle

\* The other objects stay as they are.
RandOnly ==
    /\ UNCHANGED <<queueVars, threadVars>>
    /\ UNCHANGED <<status_, num_workers_, pause_barrier_, status_rwlock_,
                   num_workers_mutex_, loops, paused, sat_pc, next_pause, next_resume>>
    /\ UNCHANGED <<errorcount_, check_errorcount_, sat_errorcount_, statuscount_,
                   max_errorcount_, user_break_, seconds_remaining, retval, ringVars, ccVars, regionVars, coarseVars, freqVars>>

\* finelock_queue.cc:260: a take calls GetRandom64; line 226, i = 0.
GR_Enter(t) ==
    /\ caller[t].pc = "ready"
    /\ caller[t].calls < MaxRandCalls
    /\ caller' = [caller EXCEPT ![t].pc = "gr_try", ![t].i = 0,
                                ![t].calls = @ + 1]
    /\ UNCHANGED <<randlocks_, rand_seed_, num_callers>>
    /\ RandOnly

\* Lines 226-232 with slots tried while i < slots: pthread_mutex_trylock on
\* randlocks_[i]; when it fails the loop goes on to the next slot, and after
\* the last one to the blocking lock of line 235.
TryLockSlots(t, slots) ==
    /\ caller[t].pc = "gr_try"
    /\ LET i == caller[t].i IN
          IF randlocks_[i] = NoThread
          THEN /\ randlocks_' = [randlocks_ EXCEPT ![i] = t]
               /\ caller' = [caller EXCEPT ![t].pc = "gr_slot"]
          ELSE /\ caller' = [caller EXCEPT
                                ![t].i = IF i + 1 < slots THEN i + 1 ELSE 0,
                                ![t].pc = IF i + 1 < slots THEN "gr_try" ELSE "gr_lock"]
               /\ UNCHANGED randlocks_
    /\ UNCHANGED <<rand_seed_, num_callers>>
    /\ RandOnly

\* The loop trying the first three slots only.
GR_TryLock_ThreeSlots(t) == TryLockSlots(t, kRandSlots - 1)

\* Lines 226-232: for (int i = 0; i < 4; i++) trylock.
GR_TryLock(t) == TryLockSlots(t, kRandSlots)

\* Lines 234-235: "Forget it, just wait": i = 0 and pthread_mutex_lock on
\* randlocks_[0], which returns once the mutex is free.
GR_Lock(t) ==
    /\ caller[t].pc = "gr_lock"
    /\ randlocks_[0] = NoThread
    /\ randlocks_' = [randlocks_ EXCEPT ![0] = t]
    /\ caller' = [caller EXCEPT ![t].pc = "gr_slot", ![t].i = 0]
    /\ UNCHANGED <<rand_seed_, num_callers>>
    /\ RandOnly

\* Lines 228 and 236, finelock_queue.cc:214-220: GetRandom64FromSlot(i)
\* steps the seed of the slot and returns its new value.
GR_FromSlot(t) ==
    /\ caller[t].pc = "gr_slot"
    /\ LET i == caller[t].i IN
          /\ rand_seed_' = [rand_seed_ EXCEPT ![i] = @ + 1]
          /\ caller' = [caller EXCEPT ![t].pc = "gr_unlock",
                                      ![t].result = <<i, rand_seed_[i] + 1>>]
    /\ UNCHANGED <<randlocks_, num_callers>>
    /\ RandOnly

\* Lines 229-230 and 237-238: unlock and return result.
GR_Unlock(t) ==
    /\ caller[t].pc = "gr_unlock"
    /\ randlocks_' = [randlocks_ EXCEPT ![caller[t].i] = NoThread]
    /\ caller' = [caller EXCEPT ![t].pc = "ready"]
    /\ UNCHANGED <<rand_seed_, num_callers>>
    /\ RandOnly

NextRand ==
    \/ \E t \in RandCallers : GR_Enter(t)
    \/ \E t \in RandCallers : GR_TryLock(t)
    \/ \E t \in RandCallers : GR_Lock(t)
    \/ \E t \in RandCallers : GR_FromSlot(t)
    \/ \E t \in RandCallers : GR_Unlock(t)

SpecRand == InitRand /\ [][NextRand]_vars

\* ---------------------------------------------------------------- SpecCc
\* CpuCacheCoherencyThread::Work (worker.cc:2379-2450): each thread
\* increments its counter in a cache line chosen at random cc_inc_count_
\* times, then adds up and zeroes its counters of all the lines and compares
\* the sum with cc_inc_count_.  Each thread makes one pass of the outer loop.
CcThreads == 0 .. (cc_thread_count_ - 1)

CcLines == 0 .. (cc_cacheline_count_ - 1)

\* The offset with the last bit of the thread count left in place.
offset_NoMask(cline_num, thread_num) ==
    IF cline_num % 2 = 1 /\ thread_num % 2 = 1
    THEN cc_thread_count_ - thread_num
    ELSE thread_num

\* worker.cc:2408-2411 and 2427-2430: if (cline_num & cc_thread_num_ & 1)
\* offset = (cc_thread_count_ & ~1) - cc_thread_num_; else offset =
\* cc_thread_num_.  x & 1 is x % 2 and x & ~1 is x - x % 2.
offset(cline_num, thread_num) ==
    IF cline_num % 2 = 1 /\ thread_num % 2 = 1
    THEN (cc_thread_count_ - (cc_thread_count_ % 2)) - thread_num
    ELSE thread_num

InitCc ==
    /\ RestIdle
    /\ PageEntryQueue(RingPages)
    /\ RandSeeded(0)
    /\ \E num_cpus \in 1 .. MaxCcThreads, cacheline_count \in 1 .. MaxCcLines :
          CcAllocated(num_cpus, cacheline_count)
    /\ BlockIdle
    /\ CoarseIdle
    /\ FreqIdle

\* The other objects stay as they are.
CcOnly ==
    /\ UNCHANGED <<queueVars, threadVars>>
    /\ UNCHANGED <<status_, num_workers_, pause_barrier_, status_rwlock_,
                   num_workers_mutex_, loops, paused, sat_pc, next_pause, next_resume>>
    /\ UNCHANGED <<errorcount_, check_errorcount_, sat_errorcount_, statuscount_,
                   max_errorcount_, user_break_, seconds_remaining, retval,
                   ringVars, randVars, regionVars, coarseVars, freqVars>>
    /\ UNCHANGED <<cc_thread_count_, cc_cacheline_count_>>

\* Lines 2400-2414: one pass of the for loop, SimpleRandom having returned
\* r.  The counters are chars: they count modulo 256.
CC_Increment(t, r) ==
    /\ cc_worker[t].pc = "cc_inc"
    /\ cc_worker[t].i < CcIncCount
    /\ LET cline_num == r % cc_cacheline_count_
           o == offset(cline_num, t)
       IN  cc_cacheline_data_' = [cc_cacheline_data_ EXCEPT ![cline_num][o] =
                                     [num |-> (@.num + 1) % 256,
                                      by |-> @.by \cup {t}]]
    /\ cc_worker' = [cc_worker EXCEPT ![t].i = @ + 1]
    /\ CcOnly

RECURSIVE SumLines(_, _)
SumLines(t, lines) ==
    IF lines = {} THEN 0
    ELSE LET cline == CHOOSE c \in lines : TRUE
         IN  cc_cacheline_data_[cline][offset(cline, t)].num
             + SumLines(t, lines \ {cline})

\* Lines 2416-2449: the for loop is over; add up and zero this thread's
\* counter of every line, and count an error if the sum is not
\* cc_inc_count_ (no error injection).
CC_Compare(t) ==
    /\ cc_worker[t].pc = "cc_inc"
    /\ cc_worker[t].i = CcIncCount
    /\ LET cc_global_num == SumLines(t, CcLines) IN
          cc_worker' = [cc_worker EXCEPT
                           ![t].pc = "cc_done",
                           ![t].errorcount_ =
                              IF cc_global_num % 256 # CcIncCount % 256
                              THEN @ + 1 ELSE @]
    /\ cc_cacheline_data_' =
          [cline \in CcLines |->
              [o \in CcThreads |->
                  IF o = offset(cline, t)
                  THEN [num |-> 0, by |-> cc_cacheline_data_[cline][o].by \cup {t}]
                  ELSE cc_cacheline_data_[cline][o]]]
    /\ CcOnly

NextCc ==
    \/ \E t \in CcThreads, r \in 0 .. (MaxCcLines - 1) : CC_Increment(t, r)
    \/ \E t \in CcThreads : CC_Compare(t)

SpecCc == InitCc /\ [][NextCc]_vars

\* ------------------------------------------------------------ SpecRegion
\* The slow comparator WorkerThread::CheckRegion (worker.cc:676-845) with
\* ProcessError (worker.cc:578-621), the error injection of CopyThread::Work
\* (worker.cc:1455-1462) and the length test of the checksum routines
\* (worker.cc:968-980, 1080-1090).  The checking thread holds the page, so
\* no other thread writes the block during a call.

\* ProcessError done before its reread: the word is repaired first.
ProcessError_RepairFirst(mem, error, message) ==
    [mem |-> [mem EXCEPT ![error.vaddr] = error.expected],
     diag |-> [message |-> message,
               vaddr |-> error.vaddr,
               actual |-> error.actual,
               reread |-> error.expected,
               expected |-> error.expected,
               patternname |-> error.patternname,
               read_error |-> TRUE]]

\* worker.cc:578-621: ProcessError(error, message) rereads the word
\* (error->reread = *(error->vaddr)), emits the diagnosis, with " read
\* error" if reread == expected, and then overwrites the word with the
\* expected value.
ProcessError(mem, error, message) ==
    [mem |-> [mem EXCEPT ![error.vaddr] = error.expected],
     diag |-> [message |-> message,
               vaddr |-> error.vaddr,
               actual |-> error.actual,
               reread |-> mem[error.vaddr],
               expected |-> error.expected,
               patternname |-> error.patternname,
               read_error |-> (mem[error.vaddr] = error.expected)]]

\* worker.cc:688-722: the first pass over the words of the region from
\* word i on: a miscompare is recorded while the queue has room, and the
\* first one that finds it full sets page_error and ends the pass.
RECURSIVE ScanRegion(_, _, _)
ScanRegion(mem, i, recorded) ==
    IF i = BlockWords
    THEN [recorded |-> recorded, page_error |-> FALSE]
    ELSE IF mem[i] # Expected(i)
         THEN IF Len(recorded) < ErrorLimit
              THEN ScanRegion(mem, i + 1,
                              Append(recorded, [actual |-> mem[i],
                                                expected |-> Expected(i),
                                                vaddr |-> i,
                                                patternname |-> block_pattern]))
              ELSE [recorded |-> recorded, page_error |-> TRUE]
         ELSE ScanRegion(mem, i + 1, recorded)

\* worker.cc:739-782: the automaton of the whole-block search from word i
\* on, m = [state, badstart, badend].  Both expected and possible are read
\* from pattern (lines 747-751); altpattern is not read.
RECURSIVE MatchAlternate(_, _, _, _)
MatchAlternate(mem, altpattern, i, m) ==
    IF i = BlockWords
    THEN m
    ELSE LET actual == mem[i]
             expected == PatternWord(block_pattern, i, 0)
             possible == PatternWord(block_pattern, i, 0)
         IN  IF m.state = "kGood"
             THEN IF actual = expected
                  THEN MatchAlternate(mem, altpattern, i + 1, m)
                  ELSE IF actual = possible
                       THEN MatchAlternate(mem, altpattern, i + 1,
                                [state |-> "kBad", badstart |-> i, badend |-> i])
                       ELSE [m EXCEPT !.state = "kNoMatch"]
             ELSE IF m.state = "kBad"
                  THEN IF actual = possible
                       THEN MatchAlternate(mem, altpattern, i + 1,
                                           [m EXCEPT !.badend = i])
                       ELSE IF actual = expected
                            THEN MatchAlternate(mem, altpattern, i + 1,
                                                [m EXCEPT !.state = "kGoodAgain"])
                            ELSE [m EXCEPT !.state = "kNoMatch"]
                  ELSE IF actual = expected
                       THEN MatchAlternate(mem, altpattern, i + 1, m)
                       ELSE [m EXCEPT !.state = "kNoMatch"]

\* worker.cc:725-803: the search over the catalog from pattern pat on.  A
\* match makes the message "Block Error", processes the first record and
\* logs the block error.  s = [mem, diags, blocks, message].
RECURSIVE FindBlockErrors(_, _, _)
FindBlockErrors(pat, recorded, s) ==
    IF pat > NumCatalog
    THEN s
    ELSE IF pat = block_pattern
         THEN FindBlockErrors(pat + 1, recorded, s)
         ELSE LET m == MatchAlternate(s.mem, pat, 0,
                          [state |-> "kGood", badstart |-> 0, badend |-> 0])
              IN  IF m.state \in {"kGoodAgain", "kBad"}
                  THEN LET done == ProcessError(s.mem, recorded[1], "Block Error")
                       IN  FindBlockErrors(pat + 1, recorded,
                              [mem |-> done.mem,
                               diags |-> Append(s.diags, done.diag),
                               blocks |-> Append(s.blocks,
                                   [altpattern |-> pat,
                                    pattern |-> block_pattern,
                                    first |-> m.badstart * 8,
                                    last |-> m.badend * 8]),
                               message |-> "Block Error"])
                  ELSE FindBlockErrors(pat + 1, recorded, s)

\* worker.cc:805-807: the error queue is processed from record err on.
RECURSIVE ProcessQueue(_, _, _)
ProcessQueue(err, recorded, s) ==
    IF err > Len(recorded)
    THEN s
    ELSE LET done == ProcessError(s.mem, recorded[err], s.message)
         IN  ProcessQueue(err + 1, recorded,
                          [s EXCEPT !.mem = done.mem,
                                    !.diags = Append(@, done.diag)])

\* The second pass left out.
ProcessOverflow_Skip(i, garbage, s) == s

\* worker.cc:809-839: after an overflow every word from i on is compared
\* again and each miscompare is processed at once.  The record er is a local
\* of which actual, expected and vaddr are set: its patternname is whatever
\* the stack held, garbage.  s = [mem, diags, blocks, message, overflowerrors].
RECURSIVE ProcessOverflow(_, _, _)
ProcessOverflow(i, garbage, s) ==
    IF i = BlockWords
    THEN s
    ELSE IF s.mem[i] # Expected(i)
         THEN LET done == ProcessError(s.mem,
                             [actual |-> s.mem[i], expected |-> Expected(i),
                              vaddr |-> i, patternname |-> garbage],
                             s.message)
              IN  ProcessOverflow(i + 1, garbage,
                      [s EXCEPT !.mem = done.mem,
                                !.diags = Append(@, done.diag),
                                !.overflowerrors = @ + 1])
         ELSE ProcessOverflow(i + 1, garbage, s)

\* worker.cc:676-845: CheckRegion(memblock, pattern, lastcpu, length, offset,
\* 0) as a whole; its result is [mem, diags, blocks, errors, page_error].
CheckRegionResult(garbage) ==
    LET scan == ScanRegion(memblock, 0, <<>>)
        start == [mem |-> memblock, diags |-> <<>>, blocks |-> <<>>,
                  message |-> IF scan.page_error THEN "Page Error"
                                                 ELSE "Hardware Error",
                  overflowerrors |-> 0]
        found == IF scan.page_error /\ ~tag_mode_
                 THEN FindBlockErrors(1, scan.recorded, start)
                 ELSE start
        queued == ProcessQueue(1, scan.recorded, found)
        final == IF scan.page_error
                 THEN ProcessOverflow(0, garbage, queued)
                 ELSE queued
    IN  [mem |-> final.mem,
         diags |-> final.diags,
         blocks |-> final.blocks,
         errors |-> Len(scan.recorded) + final.overflowerrors,
         page_error |-> scan.page_error]

InitRegion ==
    /\ RestIdle
    /\ PageEntryQueue(RingPages)
    /\ RandSeeded(0)
    /\ CcAllocated(0, 0)
    /\ CoarseIdle
    /\ FreqIdle
    /\ \E p \in Catalog, tag_mode \in BOOLEAN : BlockAt(p, tag_mode)

\* The other objects stay as they are.
RegionOnly ==
    /\ UNCHANGED <<queueVars, threadVars>>
    /\ UNCHANGED <<status_, num_workers_, pause_barrier_, status_rwlock_,
                   num_workers_mutex_, loops, paused, sat_pc, next_pause, next_resume>>
    /\ UNCHANGED <<errorcount_, check_errorcount_, sat_errorcount_, statuscount_,
                   max_errorcount_, user_break_, seconds_remaining, retval,
                   ringVars, randVars, ccVars, coarseVars, freqVars>>
    /\ UNCHANGED <<block_pattern, tag_mode_>>

\* worker.cc:1455-1462: with error injection on, addr[offset] = 0xba for a
\* random byte offset of the source page: one byte of one half of word i
\* becomes 0xba.  A half is kept as one value, that of the byte.
CopyInject(i, half) ==
    /\ Len(check_log) < MaxChecks
    /\ injected = {}
    /\ memblock' = [memblock EXCEPT ![i] =
                       IF half = "l" THEN [@ EXCEPT !.l = kInjectedByte]
                                     ELSE [@ EXCEPT !.h = kInjectedByte]]
    /\ injected' = {i}
    /\ UNCHANGED <<diagnoses, block_errors, check_log, worker_errorcount_, adler_call>>
    /\ RegionOnly

\* worker.cc:676-845: CheckRegion on the block; errorcount_ += errors +
\* overflowerrors (line 842).
CheckRegion(garbage) ==
    /\ Len(check_log) < MaxChecks
    /\ LET r == CheckRegionResult(garbage) IN
          /\ memblock' = r.mem
          /\ diagnoses' = r.diags
          /\ block_errors' = r.blocks
          /\ check_log' = Append(check_log, [errors |-> r.errors,
                                             page_error |-> r.page_error,
                                             injected |-> injected])
          /\ worker_errorcount_' = worker_errorcount_ + r.errors
    /\ injected' = {}
    /\ UNCHANGED adler_call
    /\ RegionOnly

\* worker.cc:968-1034 and 1080-1130: AdlerAddrMemcpyC and AdlerAddrCrcC on a
\* buffer of size_in_bytes bytes and a fresh AdlerChecksum: count =
\* size_in_bytes / sizeof(data); if (count > (1U << 19)) return false;
\* otherwise the sums are made and checksum->Set is called.
AdlerAddr(fn, size_in_bytes) ==
    /\ LET count == size_in_bytes \div 8 IN
          adler_call' = IF count > kAdlerLimit
                        THEN [fn |-> fn, count |-> count, result |-> FALSE,
                              checksum |-> "untouched"]
                        ELSE [fn |-> fn, count |-> count, result |-> TRUE,
                              checksum |-> "set"]
    /\ UNCHANGED <<memblock, injected, diagnoses, block_errors, check_log,
                   worker_errorcount_>>
    /\ RegionOnly

\* The buffer sizes tried: a block, and the sizes about the limit.
AdlerSizes ==
    {8 * BlockWords, 8 * (kAdlerLimit - 1), 8 * kAdlerLimit,
     8 * kAdlerLimit + 7, 8 * (kAdlerLimit + 1)}

NextRegion ==
    \/ \E i \in Words, half \in {"l", "h"} : CopyInject(i, half)
    \/ \E garbage \in Catalog \cup {NULL} : CheckRegion(garbage)

SpecRegion == InitRegion /\ [][NextRegion]_vars

\* The checksum routines called on the blocks of SpecRegion.
NextAdler ==
    \/ \E size \in AdlerSizes : AdlerAddr("AdlerAddrMemcpyC", size)
    \/ \E size \in AdlerSizes : AdlerAddr("AdlerAddrCrcC", size)

SpecAdler == InitRegion /\ [][NextAdler]_vars

\* --------------------------------------------------------------- SpecGen
\* The constructor's search for the generator, step by step
\* (finelock_queue.cc:75-99).  The locals a, c and modlength are kept in
\* a_, c_ and modlength_, to which the constructor copies them at its end.
InitGen ==
    /\ \E queuesize \in 1 .. MaxGenSize : Allocated(queuesize)
    /\ a_ = 0
    /\ c_ = 0
    /\ modlength_ = q_size_
    /\ ThreadsAt("idle")
    /\ StatusInitialized(0)
    /\ SatAt("ctor_gen")

\* Lines 80-82: length < 3.
Ctor_Small ==
    /\ sat_pc = "ctor_gen"
    /\ q_size_ < 3
    /\ a_' = 1
    /\ c_' = 1
    /\ sat_pc' = "constructed"
    /\ UNCHANGED <<q_size_, modlength_, pages_, pagelocks_, threadVars>>
    /\ UNCHANGED <<status_, num_workers_, pause_barrier_, status_rwlock_,
                   num_workers_mutex_, loops, paused, next_pause, next_resume>>
    /\ UNCHANGED runVars

\* Line 85: a = getA(length) % length.
Ctor_GetA ==
    /\ sat_pc = "ctor_gen"
    /\ q_size_ >= 3
    /\ a_' = getA(q_size_) % q_size_
    /\ sat_pc' = "ctor_while"
    /\ UNCHANGED <<q_size_, c_, modlength_, pages_, pagelocks_, threadVars>>
    /\ UNCHANGED <<status_, num_workers_, pause_barrier_, status_rwlock_,
                   num_workers_mutex_, loops, paused, next_pause, next_resume>>
    /\ UNCHANGED runVars

\* Lines 89-92: while (a == 1) try the next modulus.
Ctor_NextModlength ==
    /\ sat_pc = "ctor_while"
    /\ a_ = 1
    /\ modlength_' = modlength_ + 1
    /\ a_' = getA(modlength_ + 1) % (modlength_ + 1)
    /\ UNCHANGED <<q_size_, c_, pages_, pagelocks_, threadVars, statusVars>>

\* Line 93: c = getC(modlength).
Ctor_GetC ==
    /\ sat_pc = "ctor_while"
    /\ a_ # 1
    /\ c_' = getC(modlength_)
    /\ sat_pc' = "constructed"
    /\ UNCHANGED <<q_size_, a_, modlength_, pages_, pagelocks_, threadVars>>
    /\ UNCHANGED <<status_, num_workers_, pause_barrier_, status_rwlock_,
                   num_workers_mutex_, loops, paused, next_pause, next_resume>>
    /\ UNCHANGED runVars

NextGen ==
    \/ Ctor_Small
    \/ Ctor_GetA
    \/ Ctor_NextModlength
    \/ Ctor_GetC

SpecGen == InitGen /\ [][NextGen]_vars

\* ----------------------------------------------------- generator properties
IsPrime(n) == n >= 2 /\ \A d \in 2 .. (n - 1) : n % d # 0

PrimeFactors(n) == {d \in 2 .. n : IsPrime(d) /\ n % d = 0}

RECURSIVE GCD(_, _)
GCD(x, y) == IF y = 0 THEN x ELSE GCD(y, x % y)

\* m >= N, a - 1 divisible by every prime factor of m, and gcd(a, m) = 1.
GeneratorShape ==
    /\ modlength_ >= q_size_
    /\ \A d \in PrimeFactors(modlength_) : (a_ - 1) % d = 0
    /\ GCD(a_, modlength_) = 1

\* C10 as stated: for every queue size the constructed (a, c, m) has m >= N,
\* a - 1 divisible by every prime factor of m, c prime and gcd(a, m) = 1.
C10_AsStated ==
    sat_pc = "constructed" => GeneratorShape /\ IsPrime(c_)

\* C10: for every queue size the constructed (a, c, m) has m >= N, a - 1
\* divisible by every prime factor of m and gcd(a, m) = 1; for N >= 3, a > 1
\* and c is prime; for N < 3, a = c = 1 and m = N.
C10_GeneratorParameters ==
    sat_pc = "constructed" =>
        /\ GeneratorShape
        /\ q_size_ >= 3 => a_ > 1 /\ IsPrime(c_)
        /\ q_size_ < 3 => a_ = 1 /\ c_ = 1 /\ modlength_ = q_size_
        /\ <<a_, c_, modlength_>> = <<Generator(q_size_).a, Generator(q_size_).c,
                                      Generator(q_size_).modlength>>

\* A queue size whose modulus was raised by the search and whose increment
\* was found below the starting value 3m/4 + 1.
C10_Witness ==
    /\ sat_pc = "constructed"
    /\ modlength_ > q_size_
    /\ c_ > 1
    /\ c_ < (3 * modlength_) \div 4 + 1

\* -------------------------------------------------------- queue properties
\* The descriptors thread t holds: taken and not yet put back.
HeldSlots(t) == {SlotOf(pe[t][h]) : h \in held[t]}

\* C1: no two threads hold the descriptor of the same slot at the same time,
\* and the lock of a held slot belongs to its holder.
C1_ExclusiveHold ==
    /\ \A t1, t2 \in Threads : t1 # t2 => HeldSlots(t1) \cap HeldSlots(t2) = {}
    /\ \A t \in Threads : \A s \in HeldSlots(t) : pagelocks_[s] = t

\* One thread holds a slot while another has chosen the same slot and is
\* about to try its lock.
C1_Witness ==
    \E t1, t2 \in Threads :
        /\ t1 # t2
        /\ pc[t2] = "get_trylock"
        /\ frame[t2].index \in HeldSlots(t1)

\* Slot s can be taken by a search for pred and tag.
Takeable(s, pred, tag) ==
    /\ pagelocks_[s] = NoThread
    /\ pred_func(pred, pages_[s])
    /\ (tag = kDontCareTag \/ BitAnd(pages_[s].tag, tag) # 0)

\* C8: a take that runs without interference fails only if no unlocked slot
\* matches its predicate and tag: a descriptor put back is found by the next
\* matching take from every starting offset.
C8_TakeFindsMatchingSlot ==
    \A t \in Threads :
        (pc[t] = "get_loop" /\ frame[t].i >= q_size_) =>
            \A s \in 0 .. q_size_ - 1 : ~Takeable(s, frame[t].pred, frame[t].tag)

\* After a take, a retag to region 1 and a put, a take for region 1 finds the
\* one matching slot at its last probe.
C8_Witness ==
    \E t \in Threads :
        /\ pc[t] = "get_locked"
        /\ frame[t].tag = Pow2(1)
        /\ frame[t].i = q_size_ - 1
        /\ q_size_ >= 3
        /\ pagelocks_[frame[t].index] = t
        /\ pred_func(frame[t].pred, pages_[frame[t].index])
        /\ BitAnd(pages_[frame[t].index].tag, frame[t].tag) # 0

\* C9: the indices one search probes are pairwise distinct, and the q_size_
\* indices of a full search are all the slots.
C9_ProbesDistinct ==
    \A t \in Threads :
        /\ \A j, k \in 1 .. Len(probed[t]) : j # k => probed[t][j] # probed[t][k]
        /\ Len(probed[t]) = q_size_ =>
               {probed[t][j] : j \in 1 .. Len(probed[t])} = 0 .. q_size_ - 1

\* A full search of a queue whose generator runs over a larger modulus, so
\* that values are discarded.
C9_Witness ==
    \E t \in Threads :
        /\ Len(probed[t]) = q_size_
        /\ q_size_ >= 3
        /\ modlength_ > q_size_

\* Thread t's search returns with success in this step.
TakeReturns(t) == pc[t] = "get_locked" /\ held'[t] # held[t]

\* C11: a successful take for empty returns a descriptor with a null pattern,
\* one for valid a descriptor with a non-null pattern; the pattern, offset and
\* tag returned are those the slot stores at the return, and the caller owns
\* the slot's lock at that moment.
C11_TakeReturnsSlot ==
    [][\A t \in Threads :
          TakeReturns(t) =>
              LET s == frame[t].index
                  d == pe'[t][frame[t].h]
              IN  /\ result'[t]
                  /\ pagelocks_'[s] = t
                  /\ SlotOf(d) = s
                  /\ d.pattern = pages_'[s].pattern
                  /\ d.offset = pages_'[s].offset
                  /\ d.tag = pages_'[s].tag
                  /\ frame[t].pred = "empty" => d.pattern = NULL
                  /\ frame[t].pred = "valid" => d.pattern # NULL]_vars

\* One thread holds a valid descriptor and another an empty one, both back
\* from their takes.
C11_Witness ==
    \E t1, t2 \in Threads :
        /\ pc[t1] = "idle" /\ "src" \in held[t1] /\ page_is_valid(pe[t1]["src"])
        /\ pc[t2] = "idle" /\ "src" \in held[t2] /\ page_is_empty(pe[t2]["src"])

\* C12: a take called with a tag other than kDontCareTag returns a
\* descriptor whose tag has a bit in common with it, whatever the other
\* threads take and put meanwhile.
C12_TakeMatchesTag ==
    [][\A t \in Threads :
          (TakeReturns(t) /\ frame[t].tag # kDontCareTag) =>
              /\ BitAnd(pe'[t][frame[t].h].tag, frame[t].tag) # 0
              /\ BitAnd(pages_'[frame[t].index].tag, frame[t].tag) # 0]_vars

\* Two threads hold pages of different regions, each taken with the tag of
\* its region.
C12_Witness ==
    \E t1, t2 \in Threads :
        /\ pc[t1] = "idle" /\ "src" \in held[t1] /\ pe[t1]["src"].tag = Pow2(0)
        /\ pc[t2] = "idle" /\ "src" \in held[t2] /\ pe[t2]["src"].tag = Pow2(1)

\* Thread t takes a step inside PutEmpty.
PutEmptyStep(t) ==
    /\ pc[t] \in {"put_store", "put_null", "put_unlock"}
    /\ frame[t].pred = "empty"
    /\ pc'[t] # pc[t]

\* C13: PutEmpty leaves in its slot the caller's descriptor with a null
\* pattern and the slot's lock released, and no step of it changes the
\* descriptor or the lock of another slot.
C13_PutEmptyFrame ==
    [][\A t \in Threads :
          PutEmptyStep(t) =>
              LET index == frame[t].index
              IN  /\ \A i \in 0 .. (q_size_ - 1) :
                        i # index => /\ pages_'[i] = pages_[i]
                                     /\ pagelocks_'[i] = pagelocks_[i]
                  /\ pagelocks_[index] = t
                  /\ pc[t] = "put_unlock" =>
                        /\ pagelocks_'[index] = NoThread
                        /\ pages_'[index] =
                               [pe[t][frame[t].h] EXCEPT !.pattern = NULL]]_vars

\* A descriptor taken valid has been stored by PutEmpty with its pattern
\* nulled, while another thread holds another slot.
C13_Witness ==
    \E t1, t2 \in Threads :
        /\ t1 # t2
        /\ pc[t1] = "put_unlock"
        /\ frame[t1].pred = "empty"
        /\ pe[t1][frame[t1].h].pattern # NULL
        /\ pages_[frame[t1].index].pattern = NULL
        /\ held[t2] # {}

\* C14: a successful take for valid returns the page's touch count plus
\* one, a successful take for empty returns it unchanged; no take changes the
\* count the slot stores, the holder's count stays as returned, and the put
\* stores it in the slot.
C14_TouchCount ==
    [][\A t \in Threads :
          /\ TakeReturns(t) =>
                /\ pe'[t][frame[t].h].touch =
                       pages_[frame[t].index].touch +
                           (IF frame[t].pred = "valid" THEN 1 ELSE 0)
                /\ pages_'[frame[t].index].touch = pages_[frame[t].index].touch
          /\ \A h \in held[t] \cap held'[t] : pe'[t][h].touch = pe[t][h].touch
          /\ (/\ pc[t] \in {"get_loop", "get_tag", "get_trylock", "get_locked"}
              /\ (pc'[t] # pc[t] \/ frame'[t] # frame[t])) =>
                \A i \in 0 .. (q_size_ - 1) : pages_'[i].touch = pages_[i].touch
          /\ (pc[t] = "put_store" /\ pc'[t] # pc[t]) =>
                pages_'[frame[t].index].touch = pe[t][frame[t].h].touch
          /\ (pc[t] \in {"put_null", "put_unlock"} /\ pc'[t] # pc[t]) =>
                pages_'[frame[t].index].touch = pages_[frame[t].index].touch]_vars

\* A page read once in the run is back in the queue with its count raised,
\* and a thread holds a page it took empty with the count it had.
C14_Witness ==
    /\ \E i \in 0 .. (q_size_ - 1) :
          pagelocks_[i] = NoThread /\ pages_[i].touch = 2
    /\ \E t \in Threads :
          /\ pc[t] = "idle" /\ "src" \in held[t]
          /\ page_is_empty(pe[t]["src"]) /\ pe[t]["src"].touch = 1

\* ------------------------------------------------------- leak properties
\* A worker out of its work loop: in RemoveSelf or ended.
LeftLoop(t) == pc[t] \in {"rs_lock", "rs_mutex", "rs_reinit", "done"}

\* C7: no descriptor leaks; a worker that has left its work loop, for any
\* reason, a failed take included, holds no slot.
C7_NoLeak ==
    \A t \in Threads :
        LeftLoop(t) => /\ held[t] = {}
                       /\ \A s \in 0 .. (q_size_ - 1) : pagelocks_[s] # t

\* ------------------------------------------------ final check properties
\* The check threads have been joined.
CheckFinished == sat_pc = "joined"

\* C15: when the post-run check has finished, every page has been put back
\* empty and every slot is unlocked.
C15_AllCheckedEmpty ==
    CheckFinished =>
        \A i \in 0 .. (q_size_ - 1) :
            page_is_empty(pages_[i]) /\ pagelocks_[i] = NoThread

\* The same for the pages that were not left locked by a worker of the run.
CheckDrainsUnlocked ==
    CheckFinished =>
        \A i \in 0 .. (q_size_ - 1) :
            pagelocks_[i] # EndedWorker =>
                page_is_empty(pages_[i]) /\ pagelocks_[i] = NoThread

\* The run's workers have been joined and one of them has left a valid page
\* locked: the state the post-run check starts from after a leak.
RunLeavesLockedPage ==
    /\ sat_pc = "joined"
    /\ \E i \in 0 .. (q_size_ - 1) :
          pagelocks_[i] # NoThread /\ page_is_valid(pages_[i])

\* ------------------------------------------------- WorkerStatus properties
\* PauseWorkers has returned to Sat::Run and ResumeWorkers (or StopWorkers)
\* has not been called yet.
PausedWindow == sat_pc = "run_loop" /\ next_resume # 0

\* The control thread has been let through the barrier of PauseWorkers.
PauseReleased == sat_pc = "pause_in" /\ Sat \in pause_barrier_.released

\* C2: once PauseWorkers has returned and until ResumeWorkers is called, no
\* worker's iteration counter advances and no ContinueRunning call returns.
C2_NoAdvanceWhilePaused ==
    [][PausedWindow =>
          /\ loops' = loops
          /\ \A t \in Threads : pc'[t] = "w_test" => pc[t] = "w_test"]_vars

\* A worker with work left is held at the second barrier during the pause.
C2_Witness ==
    /\ PausedWindow
    /\ \E t \in Threads : /\ pc[t] = "cr_b2_in"
                          /\ t \in pause_barrier_.waiting
                          /\ loops[t] < MaxLoops

\* C3: PauseWorkers is not let through its barrier, and so does not return,
\* before every worker has either arrived at that barrier, from
\* ContinueRunning or from the pause loop of RemoveSelf, or has exited.
C3_PauseWaitsForWorkers ==
    (PauseReleased \/ PausedWindow) =>
        \A t \in Threads :
            pc[t] \in {"cr_b1_in", "cr_b2", "cr_b2_in",
                       "rs_b1_in", "rs_b2", "rs_b2_in", "done"}

\* PauseWorkers is let through with one worker arrived from ContinueRunning
\* and another from RemoveSelf.
C3_Witness ==
    /\ PauseReleased
    /\ \E t \in Threads : pc[t] = "cr_b1_in"
    /\ \E t \in Threads : pc[t] = "rs_b1_in"

\* A worker inside the pause branch of ContinueRunning.
InPauseBranch(t) == pc[t] \in {"cr_b1_in", "cr_b2", "cr_b2_in"}

\* C4: when StopWorkers is called while the workers are paused, every worker
\* held in ContinueRunning's pause branch gets out, its ContinueRunning call
\* returns false, and no ContinueRunning call returns true once the status
\* is STOP.
C4_StopReleasesPaused ==
    /\ \A t \in Threads :
          (status_ = STOP /\ next_resume # 0 /\ InPauseBranch(t))
              ~> (pc[t] = "w_test" /\ ~result[t] /\ paused[t])
    /\ [][status_ = STOP =>
             \A t \in Threads :
                 (pc[t] = "cr_poll" /\ pc'[t] = "w_test") => ~result'[t]]_vars

\* A paused worker has been woken by StopWorkers and its call has returned
\* false.
C4_Witness ==
    /\ status_ = STOP
    /\ next_resume # 0
    /\ \E t \in Threads : pc[t] = "w_test" /\ ~result[t] /\ paused[t]

\* C5: the status only changes by RUN->PAUSE, PAUSE->RUN, RUN->STOP or
\* PAUSE->STOP; in particular it never leaves STOP.
C5_StatusTransitions ==
    [][status_' # status_ =>
          <<status_, status_'>> \in {<<RUN, PAUSE>>, <<PAUSE, RUN>>,
                                     <<RUN, STOP>>, <<PAUSE, STOP>>}]_vars

\* The run has ended with STOP after at least one pause and resume.
C5_Witness ==
    /\ status_ = STOP
    /\ sat_pc = "joined"
    /\ \E t \in Threads : paused[t] /\ loops[t] = MaxLoops

\* C6 as stated: the only transitions during a run are RUN->PAUSE,
\* PAUSE->RUN and RUN->STOP.
C6_AsStated ==
    [][status_' # status_ =>
          <<status_, status_'>> \in {<<RUN, PAUSE>>, <<PAUSE, RUN>>,
                                     <<RUN, STOP>>}]_vars

\* C6: during a run the status changes RUN->PAUSE when Sat::Run pauses,
\* PAUSE->RUN when it resumes, and to STOP when its loop has ended: from RUN
\* if no resume is pending, from PAUSE if the loop ended during a pause.
C6_RunTransitions ==
    [][status_' # status_ =>
          \/ /\ status_ = RUN /\ status_' = PAUSE
             /\ next_pause # 0 /\ sat_pc' = "pause_wait"
          \/ /\ status_ = PAUSE /\ status_' = RUN
             /\ next_resume # 0 /\ sat_pc' = "resume_wait"
          \/ /\ status_ = RUN /\ status_' = STOP
             /\ next_resume = 0 /\ sat_pc' = "join"
          \/ /\ status_ = PAUSE /\ status_' = STOP
             /\ next_resume # 0 /\ sat_pc' = "stop_wait"]_vars

\* StopWorkers has just changed the status from PAUSE to STOP.
C6_Witness ==
    /\ status_ = STOP
    /\ sat_pc = "stop_wait"
    /\ \E t \in Threads : InPauseBranch(t)

\* --- consistency of the model of the barrier
\* The barrier is never re-made while a thread waits on it.
NoReinitWhileWaiting ==
    \A t \in Threads : pc[t] = "rs_reinit" => pause_barrier_.waiting = {}

\* ------------------------------------------------------- pool properties
\* The places of a worker inside a barrier wait of ContinueRunning or
\* RemoveSelf.
BarrierLabels == {"cr_b1", "cr_b1_in", "cr_b2", "cr_b2_in",
                  "rs_b1", "rs_b1_in", "rs_b2", "rs_b2_in"}

ControlStep ==
    \/ pc'[ControlThread] # pc[ControlThread]
    \/ frame'[ControlThread] # frame[ControlThread]

\* C17 as stated: while the workers run the control thread never takes, and
\* so never owns the lock of, a page descriptor.
C17_AsStated == \A i \in 0 .. (q_size_ - 1) : pagelocks_[i] # ControlThread

\* C17: without error injection the control thread never locks or changes a
\* page descriptor.  With it, an injection takes one valid page and puts it
\* back valid, unlocked and with the first pattern of the catalog, and the
\* control thread, unless its take has failed, changes no slot but the one
\* it holds.
C17_OnlyInjectionTouchesPages ==
    [][/\ pc[ControlThread] = "inj_off" =>
            /\ pc'[ControlThread] \in {"inj_off", "done"}
            /\ \A i \in 0 .. (q_size_ - 1) : pagelocks_'[i] # ControlThread
       /\ (ControlStep /\ ~(pc[ControlThread] = "inj_got" /\ ~result[ControlThread])) =>
            \A i \in 0 .. (q_size_ - 1) :
                pages_'[i] # pages_[i] =>
                    pc[ControlThread] = "put_store" /\ pagelocks_[i] = ControlThread
       /\ (pc[ControlThread] = "put_unlock" /\ pc'[ControlThread] = "inj_put") =>
            LET s == frame[ControlThread].index
            IN  /\ pagelocks_[s] = ControlThread
                /\ pagelocks_'[s] = NoThread
                /\ page_is_valid(pages_'[s])
                /\ pages_'[s].pattern = FirstPattern
                /\ \A i \in 0 .. (q_size_ - 1) : pagelocks_'[i] # ControlThread]_vars

\* The take of an injection has failed.
InjectionTakeFailed == pc[ControlThread] = "inj_got" /\ ~result[ControlThread]

\* An injection has put a page back with the first pattern while the copy
\* thread is in its loop, holding a page.
C17_Witness ==
    /\ pc[ControlThread] = "inj_put"
    /\ result[ControlThread]
    /\ \E i \in 0 .. (q_size_ - 1) : pages_[i].pattern = FirstPattern
    /\ status_ = RUN
    /\ \E t \in Workers : held[t] # {}

\* -------------------------------------------------------- run properties
\* The errors counted by the post-run check threads.
CheckErrorCount == SumOver(check_errorcount_, Threads)

\* C18: when main returns, its exit status is 1 if a failure was reported
\* (a bad status, or an error counted, and diagnosed, by a worker of the run
\* or by a post-run check thread) and 0 otherwise.
C18_ExitStatus ==
    sat_pc = "exited" =>
        retval = IF statuscount_ # 0 \/ GetTotalErrorCount + CheckErrorCount # 0
                 THEN 1 ELSE 0

\* The exit status as main computes it: the errors of the run's workers
\* count, those of the post-run check threads do not.
ExitStatusOfRunWorkers ==
    sat_pc = "exited" =>
        retval = IF statuscount_ # 0 \/ GetTotalErrorCount # 0 THEN 1 ELSE 0

\* A poll of the run loop: the control thread, at the loop, sleeps or leaves.
PollStep ==
    /\ sat_pc = "run_loop"
    /\ sat_pc' # sat_pc \/ seconds_remaining' # seconds_remaining

\* C19 as stated: a poll stops the workers exactly if the runtime has
\* elapsed, a user break is flagged, or the error count exceeds max_errors.
C19_AsStated ==
    [][PollStep =>
          (status_' = STOP <=> \/ seconds_remaining = 0
                               \/ user_break_
                               \/ GetTotalErrorCount > max_errorcount_)]_vars

\* C19: a poll stops the workers exactly if the runtime has elapsed, a user
\* break is flagged, or an error limit is set (max_errors is not 0) and the
\* error count exceeds it; and the status becomes STOP at a poll only.
C19_StopReasons ==
    [][/\ PollStep =>
            (status_' = STOP <=> \/ seconds_remaining = 0
                                 \/ user_break_
                                 \/ /\ max_errorcount_ # 0
                                    /\ GetTotalErrorCount > max_errorcount_)
       /\ (status_ # STOP /\ status_' = STOP) => PollStep]_vars

\* The run has been stopped for the error limit alone, and also kept going
\* with errors counted and no limit set.
C19_Witness ==
    /\ sat_pc = "join"
    /\ status_ = STOP
    /\ seconds_remaining > 0
    /\ ~user_break_
    /\ max_errorcount_ # 0
    /\ GetTotalErrorCount > max_errorcount_

\* C20: with max_errors 1 a poll that finds an error counted ends the run;
\* with max_errors 0 no poll ends the run because of errors.
C20_LimitOneStopsAtFirstError ==
    [][PollStep =>
          /\ (max_errorcount_ = 1 /\ GetTotalErrorCount >= 1) => status_' = STOP
          /\ (max_errorcount_ = 0 /\ seconds_remaining # 0 /\ ~user_break_)
                => status_' # STOP]_vars

\* ----------------------------------------------------- barrier properties
\* C21: in every state, and so whenever a thread can arrive at the pause
\* barrier, the barrier is sized for the registered workers and the control
\* thread: after Initialize and after every RemoveSelf.
C21_BarrierCount == pause_barrier_.count = num_workers_ + 1

\* A worker has removed itself and a pause rendezvous is under way on the
\* barrier RemoveSelf has re-made.
C21_Witness ==
    /\ num_workers_ < NumThreads
    /\ status_ = PAUSE
    /\ pause_barrier_.waiting # {}
    /\ \E t \in Threads : pc[t] = "done"

\* C22: a ContinueRunning call starts with *paused false; *paused becomes
\* true at the return from the second barrier and at no other step; a call
\* that has entered the pause branch passes the first and the second barrier
\* in order before it polls again; and the call returns from a poll only.
\* So at the return *paused is true exactly if the call went through a pause
\* rendezvous.
C22_PausedFlag ==
    [][\A t \in Threads :
          /\ (pc[t] = "w_check" /\ pc'[t] # pc[t]) =>
                pc'[t] = "cr_poll" /\ ~paused'[t]
          /\ (pc[t] = "cr_b2_in" /\ pc'[t] # pc[t]) =>
                pc'[t] = "cr_poll" /\ paused'[t]
          /\ paused'[t] # paused[t] =>
                pc[t] \in {"w_check", "cr_b2_in"} /\ pc'[t] = "cr_poll"
          /\ (pc[t] = "cr_poll" /\ pc'[t] # pc[t]) =>
                IF status_ = PAUSE THEN pc'[t] = "cr_b1"
                ELSE pc'[t] = "w_test" /\ result'[t] = (status_ = RUN)
          /\ (pc[t] = "cr_b1" /\ pc'[t] # pc[t]) => pc'[t] = "cr_b1_in"
          /\ (pc[t] = "cr_b1_in" /\ pc'[t] # pc[t]) => pc'[t] = "cr_b2"
          /\ (pc[t] = "cr_b2" /\ pc'[t] # pc[t]) => pc'[t] = "cr_b2_in"
          /\ (pc'[t] = "w_test" /\ pc[t] # "w_test") => pc[t] = "cr_poll"]_vars

\* A call has returned true after a pause, and another one without a pause.
C22_Witness ==
    /\ \E t \in Threads : pc[t] = "w_test" /\ paused[t] /\ result[t]
    /\ \E t \in Threads : pc[t] = "w_test" /\ ~paused[t] /\ result[t]

\* ---------------------------------------------------- coarse ring properties
\* C23: on the ring built for RingPages pages, a push returns 0 if and only
\* if the ring already holds RingPages entries, and a push that returns 0
\* leaves the entries, the indices and the counters as they were.
C23_PushFailsWhenFull ==
    [][(\E p \in RingEntries : RingPush(p)) =>
          /\ ring_ret'.op = "push"
          /\ (ring_ret'.result = 0) <=> (RingCount = RingPages)
          /\ ring_ret'.result = 0 =>
                UNCHANGED <<ring_, ring_size_, nextin_, nextout_, pushed_, popped_>>
          /\ ring_ret'.result = 1 =>
                /\ RingCount' = RingCount + 1
                /\ ring_'[nextin_] = ring_ret'.pe]_vars

C23_Witness ==
    /\ ring_ret.op = "push"
    /\ ring_ret.result = 0
    /\ RingCount = RingPages
    /\ popped_ > 0

\* C24: whichever entry the ring holds, some value of random() makes the
\* next PopRandom return it.
C24_EveryEntryCanBePopped ==
    \A i \in RingHeld : \E rand \in 0 .. MaxRand : newindex(rand) = i

\* ---------------------------------------------------- random seed properties
\* A thread waits on a seed mutex: it is in the blocking lock of
\* finelock_queue.cc:235 and another thread holds randlocks_[0].
WaitsOnSeed(t) == caller[t].pc = "gr_lock" /\ randlocks_[0] # NoThread

\* C25: whatever the number of threads inside takes, no thread ever waits on
\* a random-seed mutex.
C25_AsStated == \A t \in RandCallers : ~WaitsOnSeed(t)

\* C25, as the code has it: with at most four threads calling takes a
\* trylock of the loop always succeeds and no thread reaches the blocking
\* lock; a thread blocks, and only on the mutex of seed 0, when there are
\* five threads or more and it found all four mutexes held.
C25_NoWaitUpToFourCallers ==
    \A t \in RandCallers :
        /\ caller[t].pc = "gr_lock" => num_callers > kRandSlots
        /\ caller[t].pc \in {"gr_slot", "gr_unlock"} => randlocks_[caller[t].i] = t
        /\ num_callers <= kRandSlots /\ caller[t].pc = "gr_try" =>
              \E i \in caller[t].i .. (kRandSlots - 1) : randlocks_[i] = NoThread

C25_Witness ==
    /\ num_callers = kRandSlots
    /\ \A i \in 0 .. (kRandSlots - 1) : randlocks_[i] # NoThread

\* ------------------------------------------------ cache coherency properties
\* C26: for every cache line and thread count the offsets of the threads
\* 0 .. T-1 are distinct and inside 0 .. T-1, so no counter cell is ever
\* incremented or zeroed by two threads (and no thread counts an error).
C26_OwnCounterOnly ==
    /\ \A r \in CcLines, t \in CcThreads : offset(r, t) \in CcThreads
    /\ \A r \in CcLines, t1 \in CcThreads, t2 \in CcThreads :
          t1 # t2 => offset(r, t1) # offset(r, t2)
    /\ \A r \in CcLines, o \in CcThreads :
          Cardinality(cc_cacheline_data_[r][o].by) <= 1
    /\ \A t \in CcThreads : cc_worker[t].errorcount_ = 0

C26_Witness ==
    /\ \E r \in CcLines, t \in CcThreads :
          /\ offset(r, t) # t
          /\ cc_cacheline_data_[r][offset(r, t)].by = {t}
    /\ \A t \in CcThreads : cc_worker[t].pc = "cc_done"

\* ------------------------------------------------- slow comparator properties
\* A step of CheckRegion.
CheckStep == \E garbage \in Catalog \cup {NULL} : CheckRegion(garbage)

\* The search for a whole-block corruption never finds one.
NoBlockErrorLogged == block_errors = <<>>

\* C27: when every word of a block whose pattern is P1 holds the data of
\* another pattern P2 of the catalog, CheckRegion logs exactly one block
\* error, which names P2 and the byte range of the whole block.
C27_WholeBlockReported ==
    [][\A p2 \in Catalog :
          (/\ p2 # block_pattern
           /\ ~tag_mode_
           /\ \A i \in Words : memblock[i] = PatternWord(p2, i, 0)
           /\ CheckStep)
          => block_errors' = <<[altpattern |-> p2, pattern |-> block_pattern,
                                first |-> 0, last |-> 8 * BlockWords - 1]>>]_vars

\* C28: every diagnosis of a word the injection wrote has actual # expected,
\* reread = expected and the mark of a read error.
C28_AsStated ==
    [][CheckStep =>
          \A k \in DOMAIN diagnoses' :
              diagnoses'[k].vaddr \in injected =>
                  /\ diagnoses'[k].actual # diagnoses'[k].expected
                  /\ diagnoses'[k].reread = diagnoses'[k].expected
                  /\ diagnoses'[k].read_error]_vars

\* C28, as the code has it: the word is reread before it is repaired, so
\* the diagnosis of an injected corruption has actual # expected and reread
\* = actual, and is not marked as a read error; the word holds the expected
\* value afterwards.
C28_RereadIsActual ==
    [][CheckStep =>
          \A k \in DOMAIN diagnoses' :
              diagnoses'[k].vaddr \in injected =>
                  /\ diagnoses'[k].actual # diagnoses'[k].expected
                  /\ diagnoses'[k].actual = memblock[diagnoses'[k].vaddr]
                  /\ diagnoses'[k].reread = diagnoses'[k].actual
                  /\ ~diagnoses'[k].read_error
                  /\ memblock'[diagnoses'[k].vaddr] = diagnoses'[k].expected]_vars

C28_Witness ==
    /\ check_log # <<>>
    /\ check_log[Len(check_log)].injected # {}
    /\ check_log[Len(check_log)].errors = 1
    /\ Len(diagnoses) = 1
    /\ diagnoses[1].vaddr \in check_log[Len(check_log)].injected
    /\ diagnoses[1].message = "Hardware Error"

\* C29: after CheckRegion every word of the block has its expected value,
\* and a CheckRegion that follows another one at once returns 0 and emits
\* no diagnosis.
C29_RepeatedCheckFindsNothing ==
    [][CheckStep =>
          /\ \A i \in Words : memblock'[i] = Expected(i)
          /\ worker_errorcount_' = worker_errorcount_ + check_log'[Len(check_log')].errors
          /\ (check_log # <<>> /\ injected = {}) =>
                /\ check_log'[Len(check_log')].errors = 0
                /\ diagnoses' = <<>>
                /\ memblock' = memblock]_vars

C29_Witness ==
    /\ Len(check_log) = 2
    /\ check_log[1].page_error
    /\ check_log[1].errors = BlockWords
    /\ check_log[2].injected = {}
    /\ check_log[2].errors = 0

\* C30: a checksum routine returns false, leaving the checksum untouched,
\* exactly if the buffer has 2^19 64-bit words or more.
C30_FailsFromLimit ==
    adler_call.fn # "none" =>
        /\ (adler_call.count >= kAdlerLimit) <=> ~adler_call.result
        /\ ~adler_call.result => adler_call.checksum = "untouched"

\* The routines fail exactly above 2^19 words.
AdlerFailsAboveLimit ==
    adler_call.fn # "none" =>
        /\ (adler_call.count > kAdlerLimit) <=> ~adler_call.result
        /\ adler_call.result <=> (adler_call.checksum = "set")

\* ------------------------------------------------------ take properties
\* C31: in a run that passed initialization no take of a copy worker
\* returns false while the status is RUN.
C31_NoTakeFailsWhileRunning ==
    \A t \in Threads :
        (status_ = RUN /\ pc[t] \in {"copy_got_src", "copy_got_dst"}) => result[t]

\* ------------------------------------------------------- join properties
\* C32: once StopWorkers has been called at the end of the run loop, also
\* during a pause and also after a worker has left early, every worker
\* thread ends and JoinThreads returns.
C32_StopLeadsToJoin ==
    (status_ = STOP) ~> (sat_pc = "joined" /\ \A t \in Threads : pc[t] = "done")

\* StopWorkers called during a pause, with one worker already gone and the
\* other held at the second barrier.
C32_Witness ==
    /\ status_ = STOP
    /\ sat_pc = "stop_wait"
    /\ next_resume # 0
    /\ \E t \in Threads : pc[t] = "done"
    /\ \E t \in Threads : pc[t] = "cr_b2_in" /\ t \in pause_barrier_.waiting

\* C33: every PauseWorkers call returns: the workers on the paused status
\* come to the pause barrier from ContinueRunning or RemoveSelf, whatever the
\* threads that poll ContinueRunningNoPause on the other status do.
C33_PauseReturns ==
    (sat_pc \in {"pause_wait", "pause_in"}) ~> PausedWindow

\* PauseWorkers has returned while a check thread, which polls only
\* ContinueRunningNoPause, has put a page back and goes on.
C33_Witness ==
    /\ PausedWindow
    /\ \A t \in PowerSpikeThreads : InPauseBranch(t)
    /\ \E t \in ContinuousThreads : pc[t] = "check_put" /\ loops[t] >= 1

\* ------------------------------------------------------ holder properties
\* C34: a slot is overwritten or unlocked only by a step of the thread that
\* holds the slot's mutex.
C34_PutByHolder ==
    [][\A i \in 0 .. (q_size_ - 1) :
          (pages_'[i] # pages_[i]
             \/ (pagelocks_[i] # NoThread /\ pagelocks_'[i] = NoThread))
          => \E t \in Threads :
                /\ pagelocks_[i] = t
                /\ pc'[t] # pc[t] \/ frame'[t] # frame[t]]_vars

\* A worker still counted in num_workers_: it has not finished RemoveSelf.
Registered(t) == pc[t] # "done"

\* C35: from the return of PauseWorkers until the workers are resumed or
\* stopped, no worker registered on the paused status holds a page slot.
C35_NoPageHeldWhilePaused ==
    PausedWindow =>
        \A t \in Threads :
            Registered(t) => /\ held[t] = {}
                             /\ \A s \in 0 .. (q_size_ - 1) : pagelocks_[s] # t

\* ----------------------------------------------------- barrier properties
\* C36: a worker that has left the status loop of RemoveSelf holds the read
\* lock with a status other than PAUSE, and no thread waits on the pause
\* barrier when it re-makes the barrier.
C36_ReinitWhenBarrierIdle ==
    \A t \in Threads :
        pc[t] \in {"rs_mutex", "rs_reinit"} =>
            /\ t \in status_rwlock_
            /\ status_ # PAUSE
            /\ pause_barrier_.waiting = {}

\* A worker re-makes the barrier after a pause, while another thread let
\* through the old barrier has not returned from it yet.
C36_Witness ==
    \E t \in Threads :
        /\ pc[t] = "rs_reinit"
        /\ paused[t]
        /\ pause_barrier_.released # {}

\* ---------------------------------------------------- location properties
\* C37: in the location pass every page GetValid(kInvalidTag) returns still
\* has the tag of init_pe, and when the pass has ended no page has that tag.
C37_TakesUntaggedPagesOnly ==
    /\ (pc[LocThread] = "loc_got" /\ result[LocThread]) =>
           pe[LocThread]["src"].tag = kInvalidTag
    /\ pc[LocThread] = "loc_done" =>
           \A i \in 0 .. (q_size_ - 1) : pages_[i].tag # kInvalidTag

\* -------------------------------------------------------- fill properties
\* C38: in the fill phase no GetEmpty of a fill thread fails, and when the
\* fill threads have been joined each has filled its share and every page
\* is valid and unlocked.
C38_FillNeverFails ==
    /\ \A t \in Threads : pc[t] = "fill_got" => result[t]
    /\ sat_pc = "joined" =>
          /\ \A t \in Threads : loops[t] = num_pages_to_fill_(t)
          /\ \A i \in 0 .. (q_size_ - 1) :
                page_is_valid(pages_[i]) /\ pagelocks_[i] = NoThread

\* A fill thread has locked the last empty page after passing over slots
\* that the other threads hold or have filled, while another thread still
\* holds the page it is filling.
C38_Witness ==
    \E t \in Threads :
        /\ pc[t] = "get_locked"
        /\ frame[t].i >= 1
        /\ page_is_empty(pages_[frame[t].index])
        /\ \A i \in 0 .. (q_size_ - 1) :
              i # frame[t].index =>
                  page_is_valid(pages_[i]) \/ pagelocks_[i] # NoThread
        /\ \E u \in Threads \ {t} : held[u] # {}

\* -------------------------------------------------------------- SpecCoarse
\* Sat with --coarse_grain_lock (pe_q_implementation_ == SAT_ONELOCK): the
\* pages are kept in two PageEntryQueue rings, valid_ and empty_
\* (sat.cc:689-692), and Sat::GetValid, PutValid, GetEmpty and PutEmpty
\* (sat.cc:229-299) pop from and push to them.  Each Push and PopRandom runs
\* under the ring's q_mutex_ and is one step.  The control thread runs
\* InitializePages with one fill thread, then the run loop with the error
\* injection; the other threads are copy threads.

\* Initialization passes (sat.cc:417-447) only with
\* freepages_ = pages_ / 100 + 2 * neededpages <= pages_ / 2: the smallest
\* such number of pages for one needed page per copy thread, and one more.
CoarsePages == 4 * Cardinality(Workers) + 1

CoarseFreePages == (CoarsePages \div 100) + 2 * Cardinality(Workers)

\* Variant: the chosen entry is returned without the exchange with the
\* next-out slot.
Queue_PopRandom_NoSwap(q, rand) ==
    IF q.nextin # q.nextout
    THEN LET lastin == (q.nextin - 1 + q.q_size) % q.q_size
             entries == (lastin - q.nextout + q.q_size) % q.q_size
             newidx == IF entries # 0
                       THEN ((rand % entries) + q.nextout) % q.q_size
                       ELSE q.nextout
         IN  [q |-> [q EXCEPT !.nextout = (q.nextout + 1) % q.q_size,
                              !.popped = @ + 1],
              pe |-> q.pages[newidx], result |-> 1]
    ELSE [q |-> q, pe |-> NULL, result |-> 0]

\* queue.cc:42-63: Push(pe) on ring q; the ring after the call and the
\* value returned.
Queue_Push(q, p) ==
    LET nextnextin == (q.nextin + 1) % q.q_size IN
        IF nextnextin # q.nextout
        THEN [q |-> [q EXCEPT !.pages[q.nextin] = p, !.nextin = nextnextin,
                              !.pushed = @ + 1],
              result |-> 1]
        ELSE [q |-> q, result |-> 0]

\* queue.cc:66-115: PopRandom(pe) on ring q, random() having returned rand;
\* the ring after the call, *pe and the value returned.
Queue_PopRandom(q, rand) ==
    IF q.nextin # q.nextout
    THEN LET lastin == (q.nextin - 1 + q.q_size) % q.q_size
             entries == (lastin - q.nextout + q.q_size) % q.q_size
             newidx == IF entries # 0
                       THEN ((rand % entries) + q.nextout) % q.q_size
                       ELSE q.nextout
             swapped == [q.pages EXCEPT ![q.nextout] = q.pages[newidx],
                                        ![newidx] = q.pages[q.nextout]]
         IN  [q |-> [q EXCEPT !.pages = swapped,
                              !.nextout = (q.nextout + 1) % q.q_size,
                              !.popped = @ + 1],
              pe |-> swapped[q.nextout], result |-> 1]
    ELSE [q |-> q, pe |-> NULL, result |-> 0]

\* The other objects stay as they are.
CoarseOnly ==
    /\ UNCHANGED <<queueVars, threadVars>>
    /\ UNCHANGED <<status_, num_workers_, pause_barrier_, status_rwlock_,
                   num_workers_mutex_, loops, paused, sat_pc, next_pause, next_resume>>
    /\ UNCHANGED <<errorcount_, check_errorcount_, sat_errorcount_, statuscount_,
                   max_errorcount_, user_break_, seconds_remaining, retval,
                   ringVars, randVars, ccVars, regionVars, freqVars>>

\* The control thread moves to `label` with loop index i.
CG_Control(label, i) ==
    /\ cg_pc' = [cg_pc EXCEPT ![ControlThread] = label]
    /\ cg_loops' = [cg_loops EXCEPT ![ControlThread] = i]

\* sat.cc:456-461: for each page, init_pe, pe.offset = i * page_length_,
\* PutEmpty(&pe); a failed push ends InitializePages.
CG_InitPut ==
    /\ cg_pc[ControlThread] = "init_put"
    /\ LET i == cg_loops[ControlThread]
           r == Queue_Push(empty_, i + 1)
       IN  /\ empty_' = r.q
           /\ IF r.result = 0 THEN CG_Control("failed", i)
              ELSE IF i + 1 < CoarsePages THEN CG_Control("init_put", i + 1)
              ELSE CG_Control("fill_get", 0)
    /\ UNCHANGED <<valid_, cg_pe>>
    /\ CoarseOnly

\* FillThread::Work (worker.cc:548-553) of the one fill thread: GetEmpty.
CG_FillGet(rand) ==
    /\ cg_pc[ControlThread] = "fill_get"
    /\ LET r == Queue_PopRandom(empty_, rand) IN
          /\ empty_' = r.q
          /\ IF r.result = 1
             THEN /\ cg_pe' = [cg_pe EXCEPT ![ControlThread]["src"] = r.pe]
                  /\ cg_pc' = [cg_pc EXCEPT ![ControlThread] = "fill_put"]
             ELSE /\ cg_pe' = cg_pe
                  /\ cg_pc' = [cg_pc EXCEPT ![ControlThread] = "failed"]
    /\ UNCHANGED <<valid_, cg_loops>>
    /\ CoarseOnly

\* worker.cc:556-565: the page filled and PutValid; loops++ up to the
\* thread's share, which is every page.
CG_FillPut ==
    /\ cg_pc[ControlThread] = "fill_put"
    /\ LET i == cg_loops[ControlThread]
           r == Queue_Push(valid_, cg_pe[ControlThread]["src"])
       IN  /\ valid_' = r.q
           /\ IF r.result = 0
              THEN /\ CG_Control("failed", i)
                   /\ cg_pe' = cg_pe
              ELSE /\ cg_pe' = [cg_pe EXCEPT ![ControlThread]["src"] = NULL]
                   /\ IF i + 1 < CoarsePages THEN CG_Control("fill_get", i + 1)
                      ELSE CG_Control("loc_get", 0)
    /\ UNCHANGED empty_
    /\ CoarseOnly

\* sat.cc:535-538: the location pass, GetValid(&pe, kInvalidTag); the ring
\* takes no tag.
CG_LocGet(rand) ==
    /\ cg_pc[ControlThread] = "loc_get"
    /\ LET r == Queue_PopRandom(valid_, rand) IN
          /\ valid_' = r.q
          /\ IF r.result = 1
             THEN /\ cg_pe' = [cg_pe EXCEPT ![ControlThread]["src"] = r.pe]
                  /\ cg_pc' = [cg_pc EXCEPT ![ControlThread] = "loc_put"]
             ELSE /\ cg_pe' = cg_pe
                  /\ cg_pc' = [cg_pc EXCEPT ![ControlThread] = "failed"]
    /\ UNCHANGED <<empty_, cg_loops>>
    /\ CoarseOnly

\* sat.cc:553-557: PutEmpty for the first freepages_ iterations, PutValid
\* for the others; after the last one the copy threads are spawned
\* (sat.cc:1224-1228) and the run loop starts.
CG_LocPut ==
    /\ cg_pc[ControlThread] = "loc_put"
    /\ LET i == cg_loops[ControlThread]
           toEmpty == i < CoarseFreePages
           r == Queue_Push(IF toEmpty THEN empty_ ELSE valid_,
                           cg_pe[ControlThread]["src"])
       IN  /\ empty_' = IF toEmpty THEN r.q ELSE empty_
           /\ valid_' = IF toEmpty THEN valid_ ELSE r.q
           /\ cg_pe' = [cg_pe EXCEPT ![ControlThread]["src"] = NULL]
           /\ IF i + 1 < CoarsePages
              THEN CG_Control("loc_get", i + 1)
              ELSE /\ cg_pc' = [t \in Threads |->
                                   IF t = ControlThread THEN "inj_idle" ELSE "test"]
                   /\ cg_loops' = [t \in Threads |-> 0]
    /\ CoarseOnly

\* CopyThread::Work (worker.cc:1446): while (IsReadyToRun()); the status is
\* STOP once the control thread has left the run loop.
CG_Test(t) ==
    /\ cg_pc[t] = "test"
    /\ cg_pc[ControlThread] = "stopped" \/ cg_loops[t] < MaxCoarseLoops
    /\ cg_pc' = [cg_pc EXCEPT ![t] = IF cg_pc[ControlThread] = "stopped"
                                     THEN "exit" ELSE "getvalid"]
    /\ UNCHANGED <<valid_, empty_, cg_pe, cg_loops>>
    /\ CoarseOnly

\* worker.cc:1448: GetValid(&src); a failed take breaks (worker.cc:1450).
CG_GetValid(t, rand) ==
    /\ cg_pc[t] = "getvalid"
    /\ LET r == Queue_PopRandom(valid_, rand) IN
          /\ valid_' = r.q
          /\ IF r.result = 1
             THEN /\ cg_pe' = [cg_pe EXCEPT ![t]["src"] = r.pe]
                  /\ cg_pc' = [cg_pc EXCEPT ![t] = "getempty"]
             ELSE /\ cg_pe' = cg_pe
                  /\ cg_pc' = [cg_pc EXCEPT ![t] = "exit"]
    /\ UNCHANGED <<empty_, cg_loops>>
    /\ CoarseOnly

\* worker.cc:1449: GetEmpty(&dst); a failed take breaks with src kept.
CG_GetEmpty(t, rand) ==
    /\ cg_pc[t] = "getempty"
    /\ LET r == Queue_PopRandom(empty_, rand) IN
          /\ empty_' = r.q
          /\ IF r.result = 1
             THEN /\ cg_pe' = [cg_pe EXCEPT ![t]["dst"] = r.pe]
                  /\ cg_pc' = [cg_pc EXCEPT ![t] = "putvalid"]
             ELSE /\ cg_pe' = cg_pe
                  /\ cg_pc' = [cg_pc EXCEPT ![t] = "exit"]
    /\ UNCHANGED <<valid_, cg_loops>>
    /\ CoarseOnly

\* worker.cc:1475: PutValid(&dst); a failed push breaks with both kept.
CG_PutValid(t) ==
    /\ cg_pc[t] = "putvalid"
    /\ LET r == Queue_Push(valid_, cg_pe[t]["dst"]) IN
          /\ valid_' = r.q
          /\ IF r.result = 1
             THEN /\ cg_pe' = [cg_pe EXCEPT ![t]["dst"] = NULL]
                  /\ cg_pc' = [cg_pc EXCEPT ![t] = "putempty"]
             ELSE /\ cg_pe' = cg_pe
                  /\ cg_pc' = [cg_pc EXCEPT ![t] = "exit"]
    /\ UNCHANGED <<empty_, cg_loops>>
    /\ CoarseOnly

\* worker.cc:1476-1489: PutEmpty(&src), then loops++.
CG_PutEmpty(t) ==
    /\ cg_pc[t] = "putempty"
    /\ LET r == Queue_Push(empty_, cg_pe[t]["src"]) IN
          /\ empty_' = r.q
          /\ IF r.result = 1
             THEN /\ cg_pe' = [cg_pe EXCEPT ![t]["src"] = NULL]
                  /\ cg_pc' = [cg_pc EXCEPT ![t] = "test"]
                  /\ cg_loops' = [cg_loops EXCEPT ![t] = @ + 1]
             ELSE /\ cg_pe' = cg_pe
                  /\ cg_pc' = [cg_pc EXCEPT ![t] = "exit"]
                  /\ cg_loops' = cg_loops
    /\ UNCHANGED valid_
    /\ CoarseOnly

\* sat.cc:2021-2022: struct page_entry src; GetValid(&src), whose result is
\* not tested: after a failed take src holds whatever the stack held.
CG_InjGet(rand) ==
    /\ cg_pc[ControlThread] = "inj_idle"
    /\ cg_loops[ControlThread] < MaxInjections
    /\ LET r == Queue_PopRandom(valid_, rand) IN
          /\ valid_' = r.q
          /\ IF r.result = 1
             THEN cg_pe' = [cg_pe EXCEPT ![ControlThread]["src"] = r.pe]
             ELSE \E g \in 0 .. CoarsePages :
                     cg_pe' = [cg_pe EXCEPT ![ControlThread]["src"] = g]
    /\ cg_pc' = [cg_pc EXCEPT ![ControlThread] = "inj_got"]
    /\ UNCHANGED <<empty_, cg_loops>>
    /\ CoarseOnly

\* sat.cc:2023-2025: PutValid(&src), whose result is not tested either.
CG_InjPut ==
    /\ cg_pc[ControlThread] = "inj_got"
    /\ valid_' = Queue_Push(valid_, cg_pe[ControlThread]["src"]).q
    /\ cg_pe' = [cg_pe EXCEPT ![ControlThread]["src"] = NULL]
    /\ CG_Control("inj_idle", cg_loops[ControlThread] + 1)
    /\ UNCHANGED empty_
    /\ CoarseOnly

\* sat.cc:1966, 2060: the run loop ends and JoinThreads stops the workers.
CG_Stop ==
    /\ cg_pc[ControlThread] = "inj_idle"
    /\ cg_pc' = [cg_pc EXCEPT ![ControlThread] = "stopped"]
    /\ UNCHANGED <<valid_, empty_, cg_pe, cg_loops>>
    /\ CoarseOnly

InitCoarse ==
    /\ RestIdle
    /\ PageEntryQueue(RingPages)
    /\ RandSeeded(0)
    /\ CcAllocated(0, 0)
    /\ BlockIdle
    /\ valid_ = Queue_New(CoarsePages)
    /\ empty_ = Queue_New(CoarsePages)
    /\ cg_pc = [t \in Threads |-> IF t = ControlThread THEN "init_put" ELSE "idle"]
    /\ cg_pe = [t \in Threads |-> [h \in Handles |-> NULL]]
    /\ cg_loops = [t \in Threads |-> 0]
    /\ FreqIdle

NextCoarse ==
    \/ CG_InitPut
    \/ \E rand \in 0 .. MaxRand : CG_FillGet(rand)
    \/ CG_FillPut
    \/ \E rand \in 0 .. MaxRand : CG_LocGet(rand)
    \/ CG_LocPut
    \/ \E t \in Workers : CG_Test(t)
    \/ \E t \in Workers, rand \in 0 .. MaxRand : CG_GetValid(t, rand)
    \/ \E t \in Workers, rand \in 0 .. MaxRand : CG_GetEmpty(t, rand)
    \/ \E t \in Workers : CG_PutValid(t)
    \/ \E t \in Workers : CG_PutEmpty(t)
    \/ \E rand \in 0 .. MaxRand : CG_InjGet(rand)
    \/ CG_InjPut
    \/ CG_Stop

SpecCoarse == InitCoarse /\ [][NextCoarse]_vars

\* ------------------------------------------------------ coarse properties
\* The slots of ring q that hold its entries.
QueueHeld(q) ==
    {(q.nextout + k) % q.q_size :
        k \in 0 .. (((q.nextin - q.nextout + q.q_size) % q.q_size) - 1)}

\* The number of places page p is in: entries of the two rings and locals
\* of the threads.
Places(p) ==
    Cardinality({i \in QueueHeld(valid_) : valid_.pages[i] = p})
    + Cardinality({i \in QueueHeld(empty_) : empty_.pages[i] = p})
    + Cardinality({th \in Threads \X Handles : cg_pe[th[1]][th[2]] = p})

\* The pages whose descriptor InitializePages has made so far.
Made ==
    IF cg_pc[ControlThread] = "init_put"
    THEN 1 .. cg_loops[ControlThread] ELSE 1 .. CoarsePages

\* C39: in coarse-grain mode every page descriptor is in exactly one place:
\* an entry of the valid ring, an entry of the empty ring, or a local of
\* one thread.
C39_OnePlace ==
    cg_pc[ControlThread] # "idle" => \A p \in Made : Places(p) = 1

\* A copy thread holds a valid and an empty page and the control thread a
\* valid page taken for an injection; the other pages are in the two rings.
C39_Witness ==
    /\ cg_pc[ControlThread] = "inj_got"
    /\ cg_pe[ControlThread]["src"] # NULL
    /\ \E t \in Workers :
          /\ cg_pc[t] = "putvalid"
          /\ cg_loops[t] >= 1
    /\ QueueHeld(valid_) # {}
    /\ QueueHeld(empty_) # {}

\* ---------------------------------------------------------------- SpecFreq
\* CpuFreqThread::Work (worker.cc:3238-3334).  A sample data[b][cpu] is
\* modelled by the number of events (pauses of the thread and failed MSR
\* reads) that had happened when GetMsrs read it; an element of the
\* measurement series records the two samples it was computed from.

\* The other objects stay as they are.
FreqOnly ==
    /\ UNCHANGED <<queueVars, threadVars>>
    /\ UNCHANGED <<status_, num_workers_, pause_barrier_, status_rwlock_,
                   num_workers_mutex_, loops, paused, sat_pc, next_pause, next_resume>>
    /\ UNCHANGED <<errorcount_, check_errorcount_, sat_errorcount_, statuscount_,
                   max_errorcount_, user_break_, seconds_remaining, retval,
                   ringVars, randVars, ccVars, regionVars, coarseVars>>

\* worker.cc:3272-3281: IsReadyToRun(&paused) returns `run` and sets paused
\* (ContinueRunning, worker.cc:175-201: false on entry, true after the two
\* waits at the pause barrier); if (paused) num_intervals = 0; the startup
\* delay when num_intervals is 0.
FQ_Ready(run, wasPaused) ==
    /\ fq_pc = "ready"
    /\ run => fq_reads < MaxFreqReads
    /\ fq_paused' = wasPaused
    /\ fq_events' = IF wasPaused THEN fq_events + 1 ELSE fq_events
    /\ IF run
       THEN /\ num_intervals' = IF wasPaused THEN 0 ELSE num_intervals
            /\ fq_pc' = "read"
       ELSE /\ num_intervals' = num_intervals
            /\ fq_pc' = "done"
    /\ UNCHANGED <<fq_curr, fq_prev, fq_data, cpu_freqs, fq_reads>>
    /\ FreqOnly

\* Variant: a failed read leaves num_intervals as it is.
FQ_Read_KeepIntervals(f, torn) ==
    /\ fq_pc = "read"
    /\ fq_data' = [fq_data EXCEPT ![fq_curr] =
                      [cpu \in Cpus |->
                          IF cpu < f THEN fq_events
                          ELSE IF cpu = f /\ torn THEN TornSample
                          ELSE fq_data[fq_curr][cpu]]]
    /\ fq_reads' = fq_reads + 1
    /\ IF f < NumCpus
       THEN /\ fq_events' = fq_events + 1
            /\ num_intervals' = num_intervals
            /\ fq_pc' = "ready"
       ELSE /\ fq_events' = fq_events
            /\ num_intervals' = num_intervals + 1
            /\ fq_pc' = IF num_intervals + 1 > 2 THEN "compute" ELSE "sleep"
    /\ UNCHANGED <<fq_curr, fq_prev, fq_paused, cpu_freqs>>
    /\ FreqOnly

\* worker.cc:3283-3301: GetMsrs into data[curr] for each cpu; the read of
\* cpu f fails (f = NumCpus: none does), after some of its registers were
\* stored when `torn` (GetMsrs, worker.cc:3341-3352); after a failure
\* num_intervals = 0 and continue, otherwise num_intervals++.
FQ_Read(f, torn) ==
    /\ fq_pc = "read"
    /\ fq_data' = [fq_data EXCEPT ![fq_curr] =
                      [cpu \in Cpus |->
                          IF cpu < f THEN fq_events
                          ELSE IF cpu = f /\ torn THEN TornSample
                          ELSE fq_data[fq_curr][cpu]]]
    /\ fq_reads' = fq_reads + 1
    /\ IF f < NumCpus
       THEN /\ fq_events' = fq_events + 1
            /\ num_intervals' = 0
            /\ fq_pc' = "ready"
       ELSE /\ fq_events' = fq_events
            /\ num_intervals' = num_intervals + 1
            /\ fq_pc' = IF num_intervals + 1 > 2 THEN "compute" ELSE "sleep"
    /\ UNCHANGED <<fq_curr, fq_prev, fq_paused, cpu_freqs>>
    /\ FreqOnly

\* worker.cc:3304-3327: for each cpu ComputeFrequency(&data[curr][cpu],
\* &data[prev][cpu], &freq) and AddElement; ComputeFrequency fails for cpu f
\* (f = NumCpus: for none): num_intervals = 0 and break.  `low` are the cpus
\* whose frequency is under the threshold.
FQ_Compute(f, low) ==
    /\ fq_pc = "compute"
    /\ cpu_freqs' = cpu_freqs \cup
          {[cpu |-> cpu, prev |-> fq_data[fq_prev][cpu], curr |-> fq_data[fq_curr][cpu],
            at |-> fq_events, low |-> cpu \in low] : cpu \in {c \in Cpus : c < f}}
    /\ num_intervals' = IF f < NumCpus THEN 0 ELSE num_intervals
    /\ fq_pc' = "sleep"
    /\ UNCHANGED <<fq_curr, fq_prev, fq_paused, fq_data, fq_events, fq_reads>>
    /\ FreqOnly

\* worker.cc:3329-3333: sat_sleep(kIntervalPause); curr ^= 1; prev ^= 1.
FQ_Swap ==
    /\ fq_pc = "sleep"
    /\ fq_curr' = 1 - fq_curr
    /\ fq_prev' = 1 - fq_prev
    /\ fq_pc' = "ready"
    /\ UNCHANGED <<num_intervals, fq_paused, fq_data, fq_events, cpu_freqs, fq_reads>>
    /\ FreqOnly

InitFreq ==
    /\ RestIdle
    /\ PageEntryQueue(RingPages)
    /\ RandSeeded(0)
    /\ CcAllocated(0, 0)
    /\ BlockIdle
    /\ CoarseIdle
    /\ FreqIdle

NextFreq ==
    \/ \E run, wasPaused \in BOOLEAN : FQ_Ready(run, wasPaused)
    \/ \E f \in 0 .. NumCpus, torn \in BOOLEAN :
          /\ torn => f < NumCpus
          /\ FQ_Read(f, torn)
    \/ \E f \in 0 .. NumCpus, low \in SUBSET Cpus :
          /\ low \subseteq {c \in Cpus : c < f}
          /\ FQ_Compute(f, low)
    \/ FQ_Swap

SpecFreq == InitFreq /\ [][NextFreq]_vars

\* -------------------------------------------------------- freq properties
\* C40: every element of a frequency series was computed from two samples
\* both read after the last pause of the thread and the last failed MSR
\* read: no pause and no failed read lies between the two samples or
\* between them and the report.
C40_FreshSamples ==
    \A e \in cpu_freqs : e.prev = e.at /\ e.curr = e.at

\* A frequency was reported, then the thread was paused or a read failed,
\* and a frequency was reported again.
C40_Witness ==
    \E e1, e2 \in cpu_freqs : e1.at = 0 /\ e2.at >= 1

=============================================================================
